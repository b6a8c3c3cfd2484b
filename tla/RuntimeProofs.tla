---------------------------- MODULE RuntimeProofs ----------------------------
(***************************************************************************)
(* The four runtimes implement the operation contract of                   *)
(* agenticus/runtime/operation.py, for every set of faults and every bound, *)
(* and their evidence and their publications are what they say.            *)
(*                                                                         *)
(* Each runtime has one inductive invariant.  It says which outcomes and   *)
(* resources go with each step of the operation's thread, and what a close *)
(* that is still under way knows: the host's threads move between any two  *)
(* steps, so the properties alone are not kept by a step.                  *)
(***************************************************************************)
EXTENDS Integers, Sequences, FiniteSets, TLAPS

CONSTANTS
    Subscription, Closers, CallIds, MaxTools,
    Batches, MaxAppends, MaxEntries, Seed, Calls, MaxHooks,
    MaxEvents,
    PiFaults, ClaudeFaults, CodexFaults, AmpFaults

VARIABLES
    part,   \* whose operation runs
    pc, cancelled, publishing, result, disposition, cleanup, closer, res, loc,
    helper, submitted, published, env,
    store, mirrored, stream, drain, pending, allowed, transcript,
    files, home, custody, expired,
    starter, binding, canceller, kill, sdk

Pi == INSTANCE PiRuntime WITH Faults <- PiFaults
Claude == INSTANCE ClaudeRuntime WITH Faults <- ClaudeFaults
Codex == INSTANCE CodexRuntime WITH Faults <- CodexFaults
Amp == INSTANCE AmpRuntime WITH Faults <- AmpFaults

\* The operation of each runtime, seen as operation.py describes it: one
\* settlement, one cancellation and only before it, closing only after one of
\* the two, and evidence that is never replaced nor clean for an unsettled
\* operation.
Contract == INSTANCE RuntimeOperation WITH settlement <- result, evidence <- cleanup
ImplementsContract == Contract!Spec

\* Publication of the Pi runtime: cancel and claim exclude each other, a
\* settlement says "cancelled" exactly for a granted cancel, and a completed
\* one names a turn that is admitted, stored and cleaned up after.
PiOutcome == Pi!CancelledPublishesNothing /\ Pi!CancelledIsCancelled /\ Pi!CompletedIsPublished

\* A cancelled Claude turn publishes nothing; a completed one is admitted,
\* stored with its continuation and clean.
ClaudeOutcome == Claude!CancelledPublishesNothing /\ Claude!CompletedIsPublished

\* Publication of the Codex runtime: a cancelled turn is never admitted, a
\* turn is admitted only out of a clean territory, and a completed one has
\* everything it refers to.
CodexOutcome ==
    Codex!CancelledPublishesNothing /\ Codex!PublishedFromCleanTerritory /\ Codex!CompletedIsPublished

\* Publication of the Amp runtime.
AmpOutcome == Amp!CompletedIsPublished /\ Amp!CancelledPublishesNothing

\* What is published follows the outcome: a cancelled operation publishes no
\* result and settles as cancelled, and a completed one has published
\* everything it owes (pi.py, claude.py, codex.py, amp.py).
PublicationFollowsOutcome ==
    /\ part = "pi" => PiOutcome
    /\ part = "claude" => ClaudeOutcome
    /\ part = "codex" => CodexOutcome
    /\ part = "amp" => AmpOutcome

\* Cleanup evidence is true: a runtime that reports its territory clean, or
\* never created, leaves no process, root, file or lease behind
\* (pi.py, claude.py, codex.py, amp.py).
EvidenceIsTrue ==
    /\ part = "pi" => Pi!CleanIsTrue
    /\ part = "claude" => Claude!CleanIsTrue
    /\ part = "codex" => Codex!CleanIsTrue
    /\ part = "amp" => Amp!EvidenceIsTrue

\* An operation of one of the four.
RuntimeSpec ==
    \/ Pi!Spec /\ [](part = "pi")
    \/ Claude!Spec /\ [](part = "claude")
    \/ Codex!Spec /\ [](part = "codex")
    \/ Amp!Spec /\ [](part = "amp")

-----------------------------------------------------------------------------
(* Pi *)

\* close reads and writes its evidence without the lock, so that two of them
\* may answer differently; and a lease that custody recorded while the answer
\* was lost is not known to the operation.  What follows is about one host
\* thread that closes, and what depends on the lease about custody whose
\* answers arrive.
OneCloser == \A c, d \in Closers : c = d
LeaseAnswered == "lost" \notin PiFaults

PiBefore ==
    {"materialize", "read", "root", "create", "activate", "run", "seal", "seal-root", "claim", "lookup",
     "claim-again", "admit", "checkpoint", "turn", "continuation"}
PiAfter == {"finally-root", "release", "settle", "exit", "done"}

PiType ==
    /\ pc \in PiBefore \cup PiAfter \cup {"begin", "except", "finally"}
    /\ result \in {"none", "completed", "failed", "cancelled"}
    /\ disposition \in {"clean", "not-created", "unverified"}
    /\ res \in [client : {"none", "open", "closed", "running"},
                root : {"none", "present", "unidentified", "removed", "left"},
                custody : {"none", "held", "lost", "checkpointed", "released"}]
    /\ loc = [attempted |-> loc.attempted, settled |-> loc.settled, clean |-> loc.clean,
              outcome |-> loc.outcome, candidate |-> loc.candidate, binding |-> loc.binding]
    /\ loc.outcome \in {"completed", "failed", "cancelled"}

\* What was published, at each step, and what the outcome says of it.
PiPublished ==
    /\ publishing => ~cancelled
    /\ published # {} \/ pc \in {"admit", "checkpoint", "turn", "continuation"} => publishing
    /\ pc \in {"checkpoint", "turn", "continuation"} => "admitted" \in published
    /\ pc = "checkpoint" => Subscription
    /\ pc \in {"turn", "continuation"} => (Subscription => "credential" \in published)
    /\ pc = "continuation" => "turn" \in published
    /\ loc.outcome = "completed" =>
          /\ {"admitted", "turn", "continuation"} \subseteq published
          /\ Subscription => "credential" \in published
          /\ loc.attempted
    /\ loc.outcome = "cancelled" => cancelled
    /\ pc \in PiBefore => loc.attempted
    /\ result # "none" <=> pc \in {"exit", "done"}
    /\ result # "none" =>
          /\ result = IF cancelled THEN "cancelled" ELSE IF loc.clean THEN loc.outcome ELSE "failed"
          /\ disposition = IF ~loc.clean THEN "unverified" ELSE IF loc.attempted THEN "clean" ELSE "not-created"

\* What close knows between its steps.
PiClose ==
    /\ closer \in [Closers -> [at : {"out", "join", "store", "returned"},
                               saw : {"none", "clean", "not-created", "unverified"}]]
    /\ \A c \in Closers : closer[c].at \in {"join", "store"} => cleanup = "none" /\ (result # "none" \/ cancelled)
    /\ \A c \in Closers :
          closer[c].at = "store" =>
             closer[c].saw # "none" /\ (closer[c].saw # "unverified" => pc = "done" /\ closer[c].saw = disposition)
    /\ cleanup \in {"none", "clean", "not-created", "unverified"}
    /\ cleanup \in {"clean", "not-created"} => pc = "done" /\ cleanup = disposition

\* The resources at each step, and what "clean" says of them.
PiResources ==
    /\ ~loc.attempted => res = [client |-> "none", root |-> "none", custody |-> "none"]
    /\ pc \in PiAfter => res.client # "open"
    /\ pc \in PiAfter \ {"finally-root"} => res.root \notin {"present", "unidentified"}
    /\ loc.clean => res.client # "running" /\ res.root # "left"
    /\ loc.settled => res.custody = "checkpointed" /\ pc \notin {"begin", "materialize"}
    /\ pc \in PiBefore \ {"turn", "continuation"} => ~loc.settled
    /\ res.custody # "lost"
    /\ loc.clean /\ pc \in {"settle", "exit", "done"} => res.custody # "held"

PiInv == PiType /\ PiPublished

\* Every step of the operation's thread, of the helper and of the host keeps
\* the Pi invariant (pi.py, _Operation._run and its callbacks).
LEMMA PiInvHolds == Pi!Spec => []PiInv
<1>1. Pi!Init => PiInv
  BY DEF Pi!Init, PiInv, PiType, PiPublished, PiBefore, PiAfter
<1>2. PiInv /\ [Pi!Next]_(Pi!vars) => PiInv'
  <2> SUFFICES ASSUME PiInv, [Pi!Next]_(Pi!vars)
               PROVE  PiInv'
    OBVIOUS
  <2> USE DEF PiInv, PiType, PiPublished, PiBefore, PiAfter,
              Pi!op, Pi!At, Pi!Goto, Pi!Raise
  <2>1. CASE UNCHANGED Pi!vars
    BY <2>1 DEF Pi!vars
  <2>2. CASE Pi!Begin
    BY <2>2 DEF Pi!Begin
  <2>3. CASE Pi!Materialize \/ Pi!ReadCredential \/ Pi!MakeRoot
    BY <2>3 DEF Pi!Materialize, Pi!ReadCredential, Pi!MakeRoot
  <2>4. CASE Pi!CreateClient \/ Pi!Activate
    BY <2>4 DEF Pi!CreateClient, Pi!Activate
  <2>5. CASE Pi!Stopping
    BY <2>5 DEF Pi!Stopping, Pi!Abort, Pi!GraceOver, Pi!RunReturns, Pi!Looping
  <2>6. CASE Pi!SealClient
    BY <2>6 DEF Pi!SealClient, Pi!CloseClient
  <2>7. CASE Pi!SealRoot
    BY <2>7 DEF Pi!SealRoot, Pi!RemoveRoot
  <2>8. CASE Pi!ClaimCheck \/ Pi!Lookup
    BY <2>8 DEF Pi!ClaimCheck, Pi!Lookup
  <2>9. CASE Pi!ClaimAgain
    BY <2>9 DEF Pi!ClaimAgain, Pi!PublicationError
  <2>10. CASE Pi!AdmitResult
    BY <2>10 DEF Pi!AdmitResult, Pi!Publish
  <2>11. CASE Pi!Checkpoint
    BY <2>11 DEF Pi!Checkpoint, Pi!Publish
  <2>12. CASE Pi!StoreTurn
    BY <2>12 DEF Pi!StoreTurn, Pi!Publish
  <2>13. CASE Pi!StoreContinuation
    BY <2>13 DEF Pi!StoreContinuation, Pi!Publish
  <2>14. CASE Pi!Except
    BY <2>14 DEF Pi!Except
  <2>15. CASE Pi!FinallyClient
    BY <2>15 DEF Pi!FinallyClient, Pi!CloseClient
  <2>16. CASE Pi!FinallyRoot
    BY <2>16 DEF Pi!FinallyRoot, Pi!RemoveRoot
  <2>17. CASE Pi!Release
    BY <2>17 DEF Pi!Release
  <2>18. CASE Pi!Settle
    BY <2>18 DEF Pi!Settle
  <2>19. CASE Pi!Exit
    BY <2>19 DEF Pi!Exit
  <2>20. CASE Pi!HelperFrame
    BY <2>20 DEF Pi!HelperFrame, Pi!FrameReady, Pi!FrameToolCall, Pi!FrameTerminal, Pi!FrameMalformed, Pi!Looping
  <2>21. CASE Pi!Cancel
    BY <2>21 DEF Pi!Cancel
  <2>22. ASSUME NEW c \in Closers, Pi!CloseEnter(c) \/ Pi!CloseJoin(c) \/ Pi!CloseStore(c)
         PROVE  PiInv'
    BY <2>22 DEF Pi!CloseEnter, Pi!CloseJoin, Pi!CloseStore
  <2>23. CASE Pi!Revoke \/ Pi!Expire
    BY <2>23 DEF Pi!Revoke, Pi!Expire
  <2> QED
    BY <2>1, <2>2, <2>3, <2>4, <2>5, <2>6, <2>7, <2>8, <2>9, <2>10, <2>11, <2>12, <2>13, <2>14, <2>15,
       <2>16, <2>17, <2>18, <2>19, <2>20, <2>21, <2>22, <2>23, Zenon
       DEF Pi!Next, Pi!ThreadStep, Pi!Borrowing, Pi!Publication, Pi!Ending, Pi!Host
<1> QED
  BY <1>1, <1>2, PTL DEF Pi!Spec

\* A step of Pi settles, cancels, moves a close or leaves all of them alone.
LEMMA PiFrame ==
    ASSUME PiInv, [Pi!Next]_(Pi!vars)
    PROVE  \/ /\ UNCHANGED <<cancelled, result, disposition, cleanup, closer>>
              /\ pc = "done" => UNCHANGED <<pc, res, loc>>
           \/ Pi!Settle \/ Pi!Cancel
           \/ \E c \in Closers : Pi!CloseEnter(c) \/ Pi!CloseJoin(c) \/ Pi!CloseStore(c)
<1> USE DEF PiInv, PiPublished, Pi!op, Pi!At, Pi!Goto, Pi!Raise, Pi!Looping
<1>1. CASE UNCHANGED Pi!vars
  BY <1>1 DEF Pi!vars
<1>2. CASE Pi!Borrowing
  BY <1>2 DEF Pi!Borrowing, Pi!Begin, Pi!Materialize, Pi!ReadCredential, Pi!MakeRoot, Pi!CreateClient, Pi!Activate
<1>3. CASE Pi!Stopping
  BY <1>3 DEF Pi!Stopping, Pi!Abort, Pi!GraceOver, Pi!RunReturns
<1>4. CASE Pi!SealClient \/ Pi!SealRoot \/ Pi!ClaimCheck \/ Pi!Lookup
  BY <1>4 DEF Pi!SealClient, Pi!SealRoot, Pi!ClaimCheck, Pi!Lookup
<1>5. CASE Pi!ClaimAgain \/ Pi!AdmitResult \/ Pi!Checkpoint \/ Pi!StoreTurn \/ Pi!StoreContinuation
  BY <1>5 DEF Pi!ClaimAgain, Pi!AdmitResult, Pi!Checkpoint, Pi!StoreTurn, Pi!StoreContinuation
<1>6. CASE Pi!Except \/ Pi!FinallyClient \/ Pi!FinallyRoot \/ Pi!Release \/ Pi!Exit
  BY <1>6 DEF Pi!Except, Pi!FinallyClient, Pi!FinallyRoot, Pi!Release, Pi!Exit
<1>7. CASE Pi!HelperFrame \/ Pi!Revoke \/ Pi!Expire
  BY <1>7
     DEF Pi!HelperFrame, Pi!FrameReady, Pi!FrameToolCall, Pi!FrameTerminal, Pi!FrameMalformed, Pi!Revoke, Pi!Expire
<1> QED
  BY <1>1, <1>2, <1>3, <1>4, <1>5, <1>6, <1>7, Zenon
     DEF Pi!Next, Pi!ThreadStep, Pi!Publication, Pi!Ending, Pi!Host

\* What close saw under the lock is still so when it stores its evidence
\* (pi.py, _Operation.close).
LEMMA PiCloseHolds == ASSUME OneCloser PROVE Pi!Spec => []PiClose
<1>1. Pi!Init => PiClose
  BY DEF Pi!Init, PiClose
<1>2. PiInv /\ PiClose /\ [Pi!Next]_(Pi!vars) => PiClose'
  <2> SUFFICES ASSUME PiInv, PiClose, [Pi!Next]_(Pi!vars)
               PROVE  PiClose'
    OBVIOUS
  <2> USE DEF PiClose
  <2>1. CASE UNCHANGED <<cancelled, result, disposition, cleanup, closer>> /\ (pc = "done" => UNCHANGED <<pc, res, loc>>)
    BY <2>1
  <2>2. CASE Pi!Settle
    BY <2>2 DEF Pi!Settle, Pi!At, PiInv, PiType
  <2>3. CASE Pi!Cancel
    BY <2>3 DEF Pi!Cancel
  <2>4. ASSUME NEW c \in Closers, Pi!CloseEnter(c)
        PROVE  PiClose'
    BY <2>4 DEF Pi!CloseEnter, Pi!op
  <2>5. ASSUME NEW c \in Closers, Pi!CloseJoin(c)
        PROVE  PiClose'
    BY <2>5 DEF Pi!CloseJoin, Pi!op, PiInv, PiType
  <2>6. ASSUME NEW c \in Closers, Pi!CloseStore(c)
        PROVE  PiClose'
    BY <2>6 DEF Pi!CloseStore, OneCloser
  <2> QED
    BY <2>1, <2>2, <2>3, <2>4, <2>5, <2>6, PiFrame
<1> QED
  BY <1>1, <1>2, PiInvHolds, PTL DEF Pi!Spec

\* A Pi operation that one host thread closes keeps the contract
\* (pi.py, _Operation).
THEOREM PiImplementsContract == ASSUME OneCloser PROVE Pi!Spec => ImplementsContract
<1>1. Pi!Init => Contract!Init
  BY DEF Pi!Init, Contract!Init
<1>2. PiInv /\ PiClose /\ PiInv' /\ [Pi!Next]_(Pi!vars) => [Contract!Next]_(Contract!opVars)
  <2> SUFFICES ASSUME PiInv, PiClose, PiInv', [Pi!Next]_(Pi!vars)
               PROVE  [Contract!Next]_(Contract!opVars)
    OBVIOUS
  <2> USE DEF Contract!Next, Contract!opVars
  <2>1. CASE UNCHANGED <<cancelled, result, cleanup>>
    BY <2>1
  <2>2. CASE Pi!Settle
    BY <2>2 DEF Pi!Settle, Pi!At, Contract!Settle, Contract!Outcomes, PiInv, PiType, PiPublished
  <2>3. CASE Pi!Cancel
    BY <2>3, Zenon DEF Pi!Cancel, Contract!Cancel
  <2>4. ASSUME NEW c \in Closers, Pi!CloseStore(c)
        PROVE  Contract!Close
    BY <2>4 DEF Pi!CloseStore, Contract!Close, Contract!Dispositions, PiClose, PiInv, PiPublished
  <2>5. ASSUME NEW c \in Closers, Pi!CloseEnter(c) \/ Pi!CloseJoin(c)
        PROVE  UNCHANGED <<cancelled, result, cleanup>>
    BY <2>5 DEF Pi!CloseEnter, Pi!CloseJoin, Pi!op
  <2> QED
    BY <2>1, <2>2, <2>3, <2>4, <2>5, PiFrame
<1> QED
  BY <1>1, <1>2, PiInvHolds, PiCloseHolds, PTL DEF Pi!Spec, ImplementsContract, Contract!Spec

\* The outcomes of _Operation._run (pi.py) agree with what was published.
THEOREM PiOutcomeHolds == Pi!Spec => []PiOutcome
<1>1. PiInv => PiOutcome
  BY DEF PiInv, PiType, PiPublished, PiOutcome,
         Pi!CancelledPublishesNothing, Pi!CancelledIsCancelled, Pi!CompletedIsPublished
<1> QED
  BY <1>1, PiInvHolds, PTL

\* The locals of _Operation._run (pi.py) know the helper, the root and the lease.
LEMMA PiResourcesHold == ASSUME LeaseAnswered PROVE Pi!Spec => []PiResources
<1>1. Pi!Init => PiResources
  BY DEF Pi!Init, PiResources, PiAfter
<1>2. PiInv /\ PiResources /\ [Pi!Next]_(Pi!vars) => PiResources'
  <2> SUFFICES ASSUME PiInv, PiResources, [Pi!Next]_(Pi!vars)
               PROVE  PiResources'
    OBVIOUS
  <2> USE DEF PiInv, PiType, PiPublished, PiResources, PiBefore, PiAfter, Pi!At, Pi!Goto, Pi!Raise, Pi!May
  <2>1. CASE UNCHANGED <<pc, res, loc>>
    BY <2>1
  <2>2. CASE Pi!Begin
    BY <2>2 DEF Pi!Begin
  <2>3. CASE Pi!Materialize
    <3>1. res' = res \/ res' = [res EXCEPT !.custody = "held"]
      BY <2>3 DEF Pi!Materialize, LeaseAnswered
    <3>2. pc = "materialize" /\ pc' \in {"read", "except"} /\ UNCHANGED loc
      BY <2>3 DEF Pi!Materialize
    <3> QED
      BY <3>1, <3>2
  <2>4. CASE Pi!MakeRoot
    BY <2>4 DEF Pi!MakeRoot
  <2>5. CASE Pi!CreateClient
    BY <2>5 DEF Pi!CreateClient
  <2>6. CASE UNCHANGED <<res, loc>> /\ pc \in PiBefore \cup {"exit"} /\ pc' \in PiBefore \cup {"except", "done"}
             /\ (pc' = "done" <=> pc = "exit") /\ (pc = "turn" => pc' \in {"continuation", "except"})
             /\ (pc = "continuation" => pc' = "except")
    BY <2>6
  <2>7. CASE Pi!RunReturns
    BY <2>7 DEF Pi!RunReturns
  <2>8. CASE Pi!SealClient
    BY <2>8 DEF Pi!SealClient, Pi!CloseClient
  <2>9. CASE Pi!SealRoot
    BY <2>9 DEF Pi!SealRoot, Pi!RemoveRoot
  <2>10. CASE Pi!Lookup
    BY <2>10 DEF Pi!Lookup
  <2>11. CASE Pi!Checkpoint
    BY <2>11 DEF Pi!Checkpoint
  <2>12. CASE Pi!StoreContinuation
    BY <2>12 DEF Pi!StoreContinuation
  <2>13. CASE Pi!Except
    BY <2>13 DEF Pi!Except
  <2>14. CASE Pi!FinallyClient
    BY <2>14 DEF Pi!FinallyClient, Pi!CloseClient
  <2>15. CASE Pi!FinallyRoot
    BY <2>15 DEF Pi!FinallyRoot, Pi!RemoveRoot
  <2>16. CASE Pi!Release
    BY <2>16 DEF Pi!Release
  <2>17. CASE Pi!Settle
    BY <2>17 DEF Pi!Settle
  <2>18. CASE Pi!ReadCredential \/ Pi!Activate \/ Pi!ClaimCheck \/ Pi!ClaimAgain \/ Pi!Exit
    BY <2>6, <2>18 DEF Pi!ReadCredential, Pi!Activate, Pi!ClaimCheck, Pi!ClaimAgain, Pi!Exit
  <2>19. CASE Pi!AdmitResult \/ Pi!StoreTurn \/ Pi!Abort \/ Pi!GraceOver
    BY <2>6, <2>19 DEF Pi!AdmitResult, Pi!StoreTurn, Pi!Abort, Pi!GraceOver, Pi!Looping
  <2>20. CASE Pi!HelperFrame
    BY <2>6, <2>20
       DEF Pi!HelperFrame, Pi!FrameReady, Pi!FrameToolCall, Pi!FrameTerminal, Pi!FrameMalformed, Pi!Looping
  <2>21. CASE Pi!Cancel \/ Pi!Revoke \/ Pi!Expire
    BY <2>1, <2>21 DEF Pi!Cancel, Pi!Revoke, Pi!Expire
  <2>22. ASSUME NEW c \in Closers, Pi!CloseEnter(c) \/ Pi!CloseJoin(c) \/ Pi!CloseStore(c)
         PROVE  UNCHANGED <<pc, res, loc>>
    BY <2>22 DEF Pi!CloseEnter, Pi!CloseJoin, Pi!CloseStore
  <2>23. CASE UNCHANGED Pi!vars
    BY <2>1, <2>23 DEF Pi!vars
  <2> QED
    BY <2>1, <2>2, <2>3, <2>4, <2>5, <2>7, <2>8, <2>9, <2>10, <2>11, <2>12, <2>13, <2>14, <2>15,
       <2>16, <2>17, <2>18, <2>19, <2>20, <2>21, <2>22, <2>23, Zenon
       DEF Pi!Next, Pi!ThreadStep, Pi!Borrowing, Pi!Stopping, Pi!Publication, Pi!Ending, Pi!Host
<1> QED
  BY <1>1, <1>2, PiInvHolds, PTL DEF Pi!Spec

\* The Pi evidence: "clean" is said only when helper, root and lease are gone,
\* "not-created" only when there never were any.
THEOREM PiEvidenceHolds == ASSUME OneCloser, LeaseAnswered PROVE Pi!Spec => []Pi!CleanIsTrue
<1>1. PiInv /\ PiClose /\ PiResources => Pi!CleanIsTrue
  BY DEF PiInv, PiType, PiPublished, PiClose, PiResources, PiAfter, Pi!CleanIsTrue, Pi!Absent
<1> QED
  BY <1>1, PiInvHolds, PiCloseHolds, PiResourcesHold, PTL

-----------------------------------------------------------------------------
(* Claude *)

ClaudeBefore ==
    {"materialize", "root", "create", "connect", "drain", "disconnect", "result", "claim", "admit", "turn", "continuation"}
ClaudeAfter == {"finally-root", "release", "settle", "exit", "done"}

ClaudeType ==
    /\ pc \in ClaudeBefore \cup ClaudeAfter \cup {"begin", "except", "finally"}
    /\ result \in {"none", "completed", "failed", "cancelled"}
    /\ disposition \in {"clean", "not-created", "unverified"}
    /\ res \in [client : {"none", "open", "closed", "running"},
                root : {"none", "present", "removed", "left"},
                custody : {"none", "held", "released"}]
    /\ loc = [attempted |-> loc.attempted, clean |-> loc.clean, outcome |-> loc.outcome, snapshot |-> loc.snapshot]
    /\ loc.outcome \in {"completed", "failed", "cancelled"}

ClaudePublished ==
    /\ publishing => ~cancelled
    /\ published # {} \/ pc \in {"admit", "turn", "continuation"} => publishing
    /\ pc \in ClaudeBefore \ {"turn", "continuation"} => published = {}
    /\ pc = "turn" => published = {"admitted"}
    /\ pc = "continuation" => published = {"admitted", "turn"}
    /\ loc.outcome = "completed" => published = {"admitted", "turn", "continuation"} /\ loc.attempted
    /\ loc.outcome = "cancelled" => cancelled
    /\ pc \in ClaudeBefore => loc.attempted
    /\ pc = "begin" => published = {}
    /\ result # "none" <=> pc \in {"exit", "done"}
    /\ result # "none" =>
          /\ result = IF cancelled THEN "cancelled" ELSE IF loc.clean THEN loc.outcome ELSE "failed"
          /\ disposition = IF ~loc.clean THEN "unverified" ELSE IF loc.attempted THEN "clean" ELSE "not-created"

ClaudeResources ==
    /\ ~loc.attempted => res = [client |-> "none", root |-> "none", custody |-> "none"]
    /\ pc \in ClaudeAfter => res.client # "open"
    /\ pc \in ClaudeAfter \ {"finally-root"} => res.root # "present"
    /\ loc.clean => res.client # "running" /\ res.root # "left"
    /\ loc.clean /\ pc \in {"settle", "exit", "done"} => res.custody # "held"

ClaudeInv == ClaudeType /\ ClaudePublished /\ ClaudeResources

\* What the one close knows between its steps; Codex closes in the same way.
CloseInv ==
    /\ closer = [at |-> closer.at, saw |-> closer.saw]
    /\ closer.at \in {"out", "join", "store", "returned"}
    /\ closer.at # "returned" => cleanup = "none"
    /\ closer.at \in {"join", "store"} => result # "none" \/ cancelled
    /\ closer.at = "store" =>
          /\ closer.saw \in {"clean", "not-created", "unverified"}
          /\ closer.saw # "unverified" => pc = "done" /\ closer.saw = disposition
    /\ cleanup \in {"none", "clean", "not-created", "unverified"}
    /\ cleanup \in {"clean", "not-created"} => pc = "done" /\ cleanup = disposition

\* The steps of the client and of the world leave the operation alone.
ClaudeOutside == Claude!Client \/ Claude!Revoke \/ Claude!Expire \/ Claude!Connect \/ Claude!Draining

\* Steps of the client, the drain task and the connection leave the
\* operation's own state alone.
LEMMA ClaudeOutsideFrame ==
    ASSUME ClaudeOutside
    PROVE  /\ UNCHANGED <<cancelled, publishing, result, disposition, cleanup, closer, res, loc, published>>
           /\ pc' = pc \/ (pc = "connect" /\ pc' \in {"drain", "except"})
                \/ (pc = "drain" /\ pc' \in {"disconnect", "except"})
<1> USE DEF Claude!op, Claude!Quiet, Claude!At, Claude!Goto, Claude!Raise, Claude!session
<1>1. CASE Claude!Client
  BY <1>1, Zenon
     DEF Claude!Client, Claude!Mirror, Claude!Hook, Claude!Handler, Claude!Receive, Claude!ReceiveFails
<1>2. CASE Claude!Revoke \/ Claude!Expire \/ Claude!Connect
  BY <1>2 DEF Claude!Revoke, Claude!Expire, Claude!Connect
<1>3. CASE Claude!Draining
  BY <1>3
     DEF Claude!Draining, Claude!DrainStop, Claude!DrainInterrupt, Claude!DrainGraceOver, Claude!DrainReturns
<1> QED
  BY <1>1, <1>2, <1>3 DEF ClaudeOutside

\* Every step keeps the Claude invariant (claude.py, _Operation._run).
LEMMA ClaudeInvHolds == Claude!Spec => []ClaudeInv
<1>1. Claude!Init => ClaudeInv
  BY DEF Claude!Init, ClaudeInv, ClaudeType, ClaudePublished, ClaudeResources, ClaudeBefore, ClaudeAfter
<1>2. ClaudeInv /\ [Claude!Next]_(Claude!vars) => ClaudeInv'
  <2> SUFFICES ASSUME ClaudeInv, [Claude!Next]_(Claude!vars)
               PROVE  ClaudeInv'
    OBVIOUS
  <2> USE DEF ClaudeInv, ClaudeType, ClaudePublished, ClaudeResources, ClaudeBefore, ClaudeAfter,
              Claude!op, Claude!Quiet, Claude!At, Claude!Goto, Claude!Raise
  <2>1. CASE UNCHANGED Claude!vars
    BY <2>1 DEF Claude!vars
  <2>2. CASE Claude!Begin
    BY <2>2 DEF Claude!Begin
  <2>3. CASE Claude!Materialize
    BY <2>3 DEF Claude!Materialize
  <2>4. CASE Claude!MakeRoot
    BY <2>4 DEF Claude!MakeRoot
  <2>5. CASE Claude!CreateClient
    BY <2>5 DEF Claude!CreateClient
  <2>6. CASE ClaudeOutside
    BY <2>6, ClaudeOutsideFrame
  <2>7. CASE Claude!Disconnect
    BY <2>7 DEF Claude!Disconnect
  <2>8. CASE Claude!TakeResult
    BY <2>8 DEF Claude!TakeResult
  <2>9. CASE Claude!Claim
    BY <2>9 DEF Claude!Claim
  <2>10. CASE Claude!AdmitResult
    BY <2>10 DEF Claude!AdmitResult, Claude!Publish
  <2>11. CASE Claude!StoreTurn
    BY <2>11 DEF Claude!StoreTurn, Claude!Publish
  <2>12. CASE Claude!StoreContinuation
    BY <2>12 DEF Claude!StoreContinuation, Claude!Publish
  <2>13. CASE Claude!Except
    BY <2>13 DEF Claude!Except
  <2>14. CASE Claude!FinallyClient
    BY <2>14 DEF Claude!FinallyClient
  <2>15. CASE Claude!RemoveRoot
    <3>1. CASE UNCHANGED <<res, loc>>
      BY <2>15, <3>1 DEF Claude!RemoveRoot
    <3>2. CASE res' = [res EXCEPT !.root = "removed"] /\ UNCHANGED loc
      BY <2>15, <3>2 DEF Claude!RemoveRoot
    <3>3. CASE res.root # "none" /\ res' = [res EXCEPT !.root = "left"] /\ loc' = [loc EXCEPT !.clean = FALSE]
      <4>1. loc.attempted
        BY <3>3
      <4>2. /\ loc' = [attempted |-> loc.attempted, clean |-> FALSE, outcome |-> loc.outcome, snapshot |-> loc.snapshot]
            /\ res' = [client |-> res.client, root |-> "left", custody |-> res.custody]
        BY <3>3, Zenon
      <4> QED
        BY <2>15, <4>1, <4>2 DEF Claude!RemoveRoot
    <3> QED
      BY <2>15, <3>1, <3>2, <3>3 DEF Claude!RemoveRoot
  <2>16. CASE Claude!Release
    BY <2>16 DEF Claude!Release
  <2>17. CASE Claude!Settle
    BY <2>17 DEF Claude!Settle
  <2>18. CASE Claude!Exit \/ Claude!Cancel \/ Claude!Close
    BY <2>18 DEF Claude!Exit, Claude!Cancel, Claude!Close
  <2> QED
    BY <2>1, <2>2, <2>3, <2>4, <2>5, <2>6, <2>7, <2>8, <2>9, <2>10, <2>11, <2>12, <2>13, <2>14, <2>15,
       <2>16, <2>17, <2>18, Zenon
       DEF Claude!Next, Claude!ThreadStep, Claude!Opening, Claude!Publication, Claude!Ending, ClaudeOutside
<1> QED
  BY <1>1, <1>2, PTL DEF Claude!Spec

\* A step of Claude settles, cancels, closes or leaves all of them alone.
LEMMA ClaudeFrame ==
    ASSUME ClaudeInv, [Claude!Next]_(Claude!vars)
    PROVE  \/ /\ UNCHANGED <<cancelled, result, disposition, cleanup, closer>>
              /\ pc = "done" => pc' = "done"
           \/ Claude!Settle \/ Claude!Cancel \/ Claude!Close
<1> USE DEF Claude!op, Claude!Quiet, Claude!At, Claude!Goto, Claude!Raise
<1>1. CASE UNCHANGED Claude!vars
  BY <1>1 DEF Claude!vars
<1>2. CASE ClaudeOutside
  BY <1>2, ClaudeOutsideFrame
<1>3. CASE Claude!Begin \/ Claude!Materialize \/ Claude!MakeRoot \/ Claude!CreateClient
  BY <1>3 DEF Claude!Begin, Claude!Materialize, Claude!MakeRoot, Claude!CreateClient
<1>4. CASE Claude!Publication
  BY <1>4
     DEF Claude!Publication, Claude!Disconnect, Claude!TakeResult, Claude!Claim, Claude!AdmitResult,
         Claude!StoreTurn, Claude!StoreContinuation
<1>5. CASE Claude!Except \/ Claude!FinallyClient \/ Claude!RemoveRoot \/ Claude!Release \/ Claude!Exit
  BY <1>5 DEF Claude!Except, Claude!FinallyClient, Claude!RemoveRoot, Claude!Release, Claude!Exit
<1> QED
  BY <1>1, <1>2, <1>3, <1>4, <1>5, Zenon
     DEF Claude!Next, Claude!ThreadStep, Claude!Opening, Claude!Ending, ClaudeOutside

\* The close of Claude and Codex keeps CloseInv, whatever the rest does.
LEMMA ClaudeCloseHolds == Claude!Spec => []CloseInv
<1>1. Claude!Init => CloseInv
  BY DEF Claude!Init, CloseInv
<1>2. ClaudeInv /\ CloseInv /\ [Claude!Next]_(Claude!vars) => CloseInv'
  <2> SUFFICES ASSUME ClaudeInv, CloseInv, [Claude!Next]_(Claude!vars)
               PROVE  CloseInv'
    OBVIOUS
  <2> USE DEF CloseInv
  <2>1. CASE UNCHANGED <<cancelled, result, disposition, cleanup, closer>> /\ (pc = "done" => pc' = "done")
    BY <2>1
  <2>2. CASE Claude!Settle
    BY <2>2 DEF Claude!Settle, Claude!At, ClaudeInv, ClaudePublished
  <2>3. CASE Claude!Cancel
    BY <2>3 DEF Claude!Cancel
  <2>4. CASE Claude!Close
    BY <2>4 DEF Claude!Close, ClaudeInv, ClaudeType
  <2> QED
    BY <2>1, <2>2, <2>3, <2>4, ClaudeFrame
<1> QED
  BY <1>1, <1>2, ClaudeInvHolds, PTL DEF Claude!Spec

\* A Claude operation keeps the contract (claude.py, _Operation).
THEOREM ClaudeImplementsContract == Claude!Spec => ImplementsContract
<1>1. Claude!Init => Contract!Init
  BY DEF Claude!Init, Contract!Init
<1>2. ClaudeInv /\ CloseInv /\ ClaudeInv' /\ [Claude!Next]_(Claude!vars) => [Contract!Next]_(Contract!opVars)
  <2> SUFFICES ASSUME ClaudeInv, CloseInv, ClaudeInv', [Claude!Next]_(Claude!vars)
               PROVE  [Contract!Next]_(Contract!opVars)
    OBVIOUS
  <2> USE DEF Contract!Next, Contract!opVars
  <2>1. CASE UNCHANGED <<cancelled, result, cleanup>>
    BY <2>1
  <2>2. CASE Claude!Settle
    BY <2>2 DEF Claude!Settle, Claude!At, Contract!Settle, Contract!Outcomes, ClaudeInv, ClaudeType, ClaudePublished
  <2>3. CASE Claude!Cancel
    BY <2>3, Zenon DEF Claude!Cancel, Contract!Cancel
  <2>4. CASE Claude!Close
    BY <2>1, <2>4 DEF Claude!Close, Contract!Close, Contract!Dispositions, CloseInv, ClaudeInv, ClaudePublished
  <2> QED
    BY <2>1, <2>2, <2>3, <2>4, ClaudeFrame
<1> QED
  BY <1>1, <1>2, ClaudeInvHolds, ClaudeCloseHolds, PTL DEF Claude!Spec, ImplementsContract, Contract!Spec

\* The Claude evidence is the truth about the SDK's child, the private root
\* and the lease.
THEOREM ClaudeEvidenceHolds == Claude!Spec => []Claude!CleanIsTrue
<1>1. ClaudeInv /\ CloseInv => Claude!CleanIsTrue
  BY DEF ClaudeInv, ClaudeType, ClaudePublished, ClaudeResources, ClaudeAfter, CloseInv, Claude!CleanIsTrue
<1> QED
  BY <1>1, ClaudeInvHolds, ClaudeCloseHolds, PTL

\* The outcomes of _Operation._run (claude.py) agree with what was published.
THEOREM ClaudeOutcomeHolds == Claude!Spec => []ClaudeOutcome
<1>1. ClaudeInv => ClaudeOutcome
  BY DEF ClaudeInv, ClaudeType, ClaudePublished, ClaudeOutcome,
         Claude!CancelledPublishesNothing, Claude!CompletedIsPublished
<1> QED
  BY <1>1, ClaudeInvHolds, PTL

-----------------------------------------------------------------------------
(* Codex *)

\* A file that reached the territory while the answer was lost is not known
\* to the operation; the evidence is about territories whose answers arrive.
ImportAnswered == "import-lost" \notin CodexFaults

CodexPrivate == {"import-rollout", "stage", "exec", "collect", "export", "store", "delete"}
CodexBefore ==
    {"materialize", "activate", "import-auth", "claim", "admit", "checkpoint"} \cup CodexPrivate
CodexAfter == {"finally-scrub", "finally-files", "release", "settle", "exit", "done"}

CodexType ==
    /\ pc \in CodexBefore \cup CodexAfter \cup {"enter", "begin"}
    /\ result \in {"none", "completed", "failed", "cancelled"}
    /\ disposition \in {"clean", "not-created", "unverified"}
    /\ home \in {"untouched", "dirty", "scrubbed"}
    /\ custody \in {"none", "held", "released", "published"}
    /\ loc = [prior |-> loc.prior, attempted |-> loc.attempted, materialized |-> loc.materialized,
              refs |-> loc.refs, touched |-> loc.touched, scrubbed |-> loc.scrubbed,
              privateClean |-> loc.privateClean, settled |-> loc.settled,
              connectionClean |-> loc.connectionClean, outcome |-> loc.outcome, candidate |-> loc.candidate]
    /\ loc.outcome \in {"completed", "failed"}
    /\ loc.candidate \in {"none", "completed", "failed"}

CodexTurn == IF loc.candidate = "completed" THEN {"continuation", "turn"} ELSE {"continuation"}

CodexPublished ==
    /\ publishing => ~cancelled
    /\ "admitted" \in published \/ "connection" \in published \/ pc \in {"admit", "checkpoint"} => publishing
    /\ pc \in {"delete", "claim", "admit"} => published = CodexTurn
    /\ pc = "checkpoint" => published = CodexTurn \cup {"admitted"}
    /\ pc \in {"collect", "export", "store", "delete", "claim", "admit", "checkpoint"} => loc.candidate # "none"
    /\ pc \in (CodexBefore \ {"delete", "claim", "admit", "checkpoint"}) \cup {"enter", "begin"} => published = {}
    /\ pc \in CodexBefore \cup {"enter", "begin"} => loc.outcome = "failed"
    /\ loc.outcome = "completed" =>
          /\ published = {"continuation", "turn", "admitted", "connection"}
          /\ loc.settled /\ loc.connectionClean /\ loc.privateClean
    /\ result # "none" <=> pc \in {"exit", "done"}
    /\ result # "none" => result = (IF cancelled THEN "cancelled" ELSE loc.outcome) /\ disposition = Codex!Disposition

\* The private files and the home are what the locals say of them.
CodexTerritory ==
    /\ ~loc.touched => home = "untouched"
    /\ loc.scrubbed => home = "scrubbed"
    /\ pc \in {"import-rollout", "stage", "exec", "collect"} => ~loc.scrubbed
    /\ pc \in {"export", "store", "delete", "claim", "admit", "checkpoint"} => loc.scrubbed
    /\ pc \in {"enter", "begin", "materialize", "activate", "import-auth"} => ~loc.touched /\ ~loc.scrubbed
    /\ pc = "collect" => loc.touched
    /\ pc \in CodexPrivate => ~loc.privateClean
    /\ pc \in {"claim", "admit", "checkpoint"} \/ publishing => loc.privateClean /\ loc.scrubbed /\ files = {}

CodexCustody ==
    /\ pc \in {"enter", "begin"} => ~loc.attempted
    /\ pc \in CodexBefore => loc.attempted /\ ~loc.connectionClean
    /\ loc.materialized => custody # "none"
    /\ loc.connectionClean => custody \in {"released", "published"}
    /\ ~loc.attempted =>
          /\ home = "untouched" /\ custody = "none"
          /\ ~loc.touched /\ ~loc.materialized /\ ~loc.connectionClean

\* Without lost imports the locals know every private file.
CodexFiles ==
    /\ loc.privateClean => files = {} /\ home # "dirty"
    /\ ~loc.attempted => files = {}

CodexInv == CodexType /\ CodexPublished /\ CodexTerritory /\ CodexCustody

\* Every step keeps the Codex invariant (codex.py, _CodexOperation._run).
LEMMA CodexInvHolds == Codex!Spec => []CodexInv
<1>1. Codex!Init => CodexInv
  <2> SUFFICES ASSUME Codex!Init PROVE CodexInv
    OBVIOUS
  <2>1. /\ loc = [prior |-> loc.prior, attempted |-> loc.attempted, materialized |-> loc.materialized,
              refs |-> loc.refs, touched |-> loc.touched, scrubbed |-> loc.scrubbed,
              privateClean |-> loc.privateClean, settled |-> loc.settled,
              connectionClean |-> loc.connectionClean, outcome |-> loc.outcome, candidate |-> loc.candidate]
        /\ ~loc.attempted /\ ~loc.materialized /\ ~loc.touched /\ ~loc.scrubbed /\ ~loc.connectionClean
        /\ loc.outcome = "failed" /\ loc.candidate = "none"
    BY Zenon DEF Codex!Init
  <2> QED
    BY <2>1
       DEF Codex!Init, CodexInv, CodexType, CodexPublished, CodexTerritory, CodexCustody, CodexBefore, CodexAfter,
           CodexPrivate
<1>2. CodexInv /\ [Codex!Next]_(Codex!vars) => CodexInv'
  <2> SUFFICES ASSUME CodexInv, [Codex!Next]_(Codex!vars)
               PROVE  CodexInv'
    OBVIOUS
  <2> USE DEF CodexInv, CodexType, CodexPublished, CodexTerritory, CodexCustody, CodexBefore, CodexAfter, CodexPrivate,
              CodexTurn, Codex!op, Codex!territory, Codex!Quiet, Codex!At, Codex!Goto, Codex!Raise, Codex!Disposition
  <2>1. CASE UNCHANGED Codex!vars
    BY <2>1 DEF Codex!vars
  <2>2. CASE Codex!Enter
    BY <2>2 DEF Codex!Enter
  <2>3. CASE Codex!Begin
    BY <2>3 DEF Codex!Begin
  <2>4. CASE Codex!Materialize
    <3>1. CASE UNCHANGED <<custody, loc>>
      BY <2>4, <3>1 DEF Codex!Materialize
    <3>2. CASE custody' = "held" /\ loc' = [loc EXCEPT !.materialized = TRUE]
      BY <2>4, <3>2, Zenon DEF Codex!Materialize
    <3> QED
      BY <2>4, <3>1, <3>2 DEF Codex!Materialize
  <2>5. CASE Codex!Activate
    BY <2>5 DEF Codex!Activate
  <2>6. CASE Codex!ImportAuth
    BY <2>6, Zenon DEF Codex!ImportAuth, Codex!Import
  <2>7. CASE Codex!ImportRollout
    BY <2>7, Zenon DEF Codex!ImportRollout, Codex!Import
  <2>8. CASE Codex!Stage
    BY <2>8, Zenon DEF Codex!Stage
  <2>9. CASE Codex!Exec
    BY <2>9, Zenon DEF Codex!Exec, Codex!Candidates
  <2>10. CASE Codex!Collect
    <3>1. CASE UNCHANGED loc /\ Codex!Raise
      BY <2>10, <3>1 DEF Codex!Collect, Codex!Scrub
    <3>2. CASE Codex!Goto("export") /\ Codex!Scrub /\ loc' = [loc EXCEPT !.scrubbed = TRUE]
      BY <2>10, <3>2, Zenon DEF Codex!Collect, Codex!Scrub
    <3> QED
      BY <2>10, <3>1, <3>2 DEF Codex!Collect
  <2>11. CASE Codex!Export
    BY <2>11 DEF Codex!Export
  <2>12. CASE Codex!Store
    BY <2>12 DEF Codex!Store
  <2>13. CASE Codex!Delete
    BY <2>13 DEF Codex!Delete
  <2>14. CASE Codex!Claim
    BY <2>14 DEF Codex!Claim
  <2>15. CASE Codex!AdmitResult
    BY <2>15 DEF Codex!AdmitResult
  <2>16. CASE Codex!Checkpoint
    <3>1. CASE UNCHANGED <<custody, loc, published>> /\ Codex!Raise
      BY <2>16, <3>1 DEF Codex!Checkpoint
    <3>2. CASE /\ Codex!Goto("finally-scrub") /\ custody' = "published"
               /\ published' = published \cup {"connection"}
               /\ loc' = [loc EXCEPT !.settled = TRUE, !.connectionClean = TRUE, !.outcome = loc.candidate]
      BY <2>16, <3>2, Zenon DEF Codex!Checkpoint
    <3>3. CASE /\ Codex!Raise /\ custody' = "published" /\ published' = published \cup {"connection"} /\ loc' = loc
      BY <2>16, <3>3 DEF Codex!Checkpoint
    <3>4. CASE /\ Codex!Raise /\ custody' = "published" /\ published' = published \cup {"connection"}
               /\ \E clean \in BOOLEAN : loc' = [loc EXCEPT !.settled = TRUE, !.connectionClean = clean]
      BY <2>16, <3>4, Zenon DEF Codex!Checkpoint
    <3> QED
      BY <2>16, <3>1, <3>2, <3>3, <3>4, Zenon DEF Codex!Checkpoint
  <2>17. CASE Codex!FinallyScrub
    <3>1. CASE UNCHANGED <<home, loc>>
      BY <2>17, <3>1 DEF Codex!FinallyScrub
    <3>2. CASE ~loc.privateClean /\ home' = "scrubbed" /\ loc' = [loc EXCEPT !.scrubbed = TRUE] /\ loc.touched
      BY <2>17, <3>2, Zenon DEF Codex!FinallyScrub
    <3> QED
      BY <2>17, <3>1, <3>2 DEF Codex!FinallyScrub, Codex!Scrub
  <2>18. CASE Codex!FinallyFiles
    BY <2>18 DEF Codex!FinallyFiles
  <2>19. CASE Codex!Release
    BY <2>19 DEF Codex!Release
  <2>20. CASE Codex!Settle
    BY <2>20 DEF Codex!Settle
  <2>21. CASE Codex!Exit
    BY <2>21 DEF Codex!Exit
  <2>22. CASE Codex!Cancel \/ Codex!Close \/ Codex!Expire
    BY <2>22 DEF Codex!Cancel, Codex!Close, Codex!Expire
  <2> QED
    BY <2>1, <2>2, <2>3, <2>4, <2>5, <2>6, <2>7, <2>8, <2>9, <2>10, <2>11, <2>12, <2>13, <2>14, <2>15,
       <2>16, <2>17, <2>18, <2>19, <2>20, <2>21, <2>22, Zenon
       DEF Codex!Next, Codex!Opening, Codex!Running, Codex!Publication, Codex!Ending
<1> QED
  BY <1>1, <1>2, PTL DEF Codex!Spec

\* A step of Codex ends the operation, cancels, closes or leaves all of them alone.
LEMMA CodexFrame ==
    ASSUME [Codex!Next]_(Codex!vars)
    PROVE  \/ /\ UNCHANGED <<cancelled, result, disposition, cleanup, closer>>
              /\ pc = "done" => pc' = "done"
           \/ Codex!Enter \/ Codex!Settle \/ Codex!Cancel \/ Codex!Close
<1> USE DEF Codex!op, Codex!Quiet, Codex!At, Codex!Goto, Codex!Raise
<1>1. CASE UNCHANGED Codex!vars
  BY <1>1 DEF Codex!vars
<1>2. CASE Codex!Begin \/ Codex!Materialize \/ Codex!Activate \/ Codex!ImportAuth \/ Codex!ImportRollout \/ Codex!Stage
  BY <1>2
     DEF Codex!Begin, Codex!Materialize, Codex!Activate, Codex!ImportAuth, Codex!ImportRollout, Codex!Stage
<1>3. CASE Codex!Running
  BY <1>3, Zenon DEF Codex!Running, Codex!Exec, Codex!Collect, Codex!Export, Codex!Store, Codex!Delete
<1>4. CASE Codex!Publication
  BY <1>4, Zenon DEF Codex!Publication, Codex!Claim, Codex!AdmitResult, Codex!Checkpoint
<1>5. CASE Codex!FinallyScrub \/ Codex!FinallyFiles \/ Codex!Release \/ Codex!Exit \/ Codex!Expire
  BY <1>5 DEF Codex!FinallyScrub, Codex!FinallyFiles, Codex!Release, Codex!Exit, Codex!Expire
<1> QED
  BY <1>1, <1>2, <1>3, <1>4, <1>5, Zenon DEF Codex!Next, Codex!Opening, Codex!Ending

\* What close saw is still so when it stores its evidence (codex.py, close).
LEMMA CodexCloseHolds == Codex!Spec => []CloseInv
<1>1. Codex!Init => CloseInv
  BY DEF Codex!Init, CloseInv
<1>2. CodexInv /\ CloseInv /\ [Codex!Next]_(Codex!vars) => CloseInv'
  <2> SUFFICES ASSUME CodexInv, CloseInv, [Codex!Next]_(Codex!vars)
               PROVE  CloseInv'
    OBVIOUS
  <2> USE DEF CloseInv
  <2>1. CASE UNCHANGED <<cancelled, result, disposition, cleanup, closer>> /\ (pc = "done" => pc' = "done")
    BY <2>1
  <2>2. CASE Codex!Settle
    BY <2>2 DEF Codex!Settle, Codex!At, CodexInv, CodexPublished
  <2>3. CASE Codex!Enter
    BY <2>3 DEF Codex!Enter, Codex!At, Codex!Goto
  <2>4. CASE Codex!Cancel
    BY <2>4 DEF Codex!Cancel
  <2>5. CASE Codex!Close
    BY <2>5 DEF Codex!Close, CodexInv, CodexType
  <2> QED
    BY <2>1, <2>2, <2>3, <2>4, <2>5, CodexFrame
<1> QED
  BY <1>1, <1>2, CodexInvHolds, PTL DEF Codex!Spec

\* A Codex operation keeps the contract (codex.py, _CodexOperation).
THEOREM CodexImplementsContract == Codex!Spec => ImplementsContract
<1>1. Codex!Init => Contract!Init
  BY DEF Codex!Init, Contract!Init
<1>2. CodexInv /\ CloseInv /\ CodexInv' /\ [Codex!Next]_(Codex!vars) => [Contract!Next]_(Contract!opVars)
  <2> SUFFICES ASSUME CodexInv, CloseInv, CodexInv', [Codex!Next]_(Codex!vars)
               PROVE  [Contract!Next]_(Contract!opVars)
    OBVIOUS
  <2> USE DEF Contract!Next, Contract!opVars
  <2>1. CASE UNCHANGED <<cancelled, result, cleanup>>
    BY <2>1
  <2>2. CASE Codex!Settle
    BY <2>2 DEF Codex!Settle, Codex!At, Contract!Settle, Contract!Outcomes, CodexInv, CodexType, CodexPublished
  <2>3. CASE Codex!Enter
    BY <2>1, <2>3
       DEF Codex!Enter, Codex!At, Contract!Settle, Contract!Outcomes, CodexInv, CodexType, CodexPublished
  <2>4. CASE Codex!Cancel
    BY <2>4, Zenon DEF Codex!Cancel, Contract!Cancel
  <2>5. CASE Codex!Close
    BY <2>1, <2>5 DEF Codex!Close, Contract!Close, Contract!Dispositions, CloseInv, CodexInv, CodexPublished
  <2> QED
    BY <2>1, <2>2, <2>3, <2>4, <2>5, CodexFrame
<1> QED
  BY <1>1, <1>2, CodexInvHolds, CodexCloseHolds, PTL DEF Codex!Spec, ImplementsContract, Contract!Spec

\* The outcomes of _CodexOperation._run (codex.py) agree with what was published.
THEOREM CodexOutcomeHolds == Codex!Spec => []CodexOutcome
<1>1. CodexInv => CodexOutcome
  BY DEF CodexInv, CodexType, CodexPublished, CodexTerritory, CodexOutcome, Codex!Disposition,
         Codex!CancelledPublishesNothing, Codex!PublishedFromCleanTerritory, Codex!CompletedIsPublished
<1> QED
  BY <1>1, CodexInvHolds, PTL

\* The locals of _CodexOperation._run (codex.py) know every private file.
LEMMA CodexFilesHold == ASSUME ImportAnswered PROVE Codex!Spec => []CodexFiles
<1>1. Codex!Init => CodexFiles
  BY DEF Codex!Init, CodexFiles
<1>2. CodexInv /\ CodexFiles /\ [Codex!Next]_(Codex!vars) => CodexFiles'
  <2> SUFFICES ASSUME CodexInv, CodexFiles, [Codex!Next]_(Codex!vars)
               PROVE  CodexFiles'
    OBVIOUS
  <2> USE DEF CodexInv, CodexType, CodexTerritory, CodexCustody, CodexFiles, CodexBefore, CodexPrivate,
              Codex!territory, Codex!At
  <2>1. CASE UNCHANGED <<files, home, loc>>
    BY <2>1
  <2>2. CASE Codex!Begin
    BY <2>2 DEF Codex!Begin
  <2>3. CASE Codex!Materialize
    BY <2>3 DEF Codex!Materialize
  <2>4. CASE Codex!ImportAuth \/ Codex!ImportRollout
    BY <2>4, Zenon DEF Codex!ImportAuth, Codex!ImportRollout, Codex!Import, Codex!May, ImportAnswered
  <2>5. CASE Codex!Stage
    BY <2>5 DEF Codex!Stage
  <2>6. CASE Codex!Exec
    BY <2>6, Zenon DEF Codex!Exec
  <2>7. CASE Codex!Collect
    BY <2>7 DEF Codex!Collect, Codex!Scrub
  <2>8. CASE Codex!Delete
    BY <2>8 DEF Codex!Delete
  <2>9. CASE Codex!Checkpoint
    BY <2>9, Zenon DEF Codex!Checkpoint
  <2>10. CASE Codex!FinallyScrub
    BY <2>10 DEF Codex!FinallyScrub, Codex!Scrub
  <2>11. CASE Codex!FinallyFiles
    BY <2>11, Zenon DEF Codex!FinallyFiles
  <2>12. CASE Codex!Release
    BY <2>12 DEF Codex!Release
  <2>13. CASE Codex!Enter \/ Codex!Activate \/ Codex!Export \/ Codex!Store \/ Codex!Claim \/ Codex!AdmitResult
    BY <2>1, <2>13 DEF Codex!Enter, Codex!Activate, Codex!Export, Codex!Store, Codex!Claim, Codex!AdmitResult
  <2>14. CASE Codex!Settle \/ Codex!Exit \/ Codex!Cancel \/ Codex!Close \/ Codex!Expire \/ UNCHANGED Codex!vars
    BY <2>1, <2>14 DEF Codex!Settle, Codex!Exit, Codex!Cancel, Codex!Close, Codex!Expire, Codex!vars
  <2> QED
    BY <2>2, <2>3, <2>4, <2>5, <2>6, <2>7, <2>8, <2>9, <2>10, <2>11, <2>12, <2>13, <2>14, Zenon
       DEF Codex!Next, Codex!Opening, Codex!Running, Codex!Publication, Codex!Ending
<1> QED
  BY <1>1, <1>2, CodexInvHolds, PTL DEF Codex!Spec

\* The Codex evidence is the truth about the private files, the home and the
\* lease, when the territory's answers arrive.
THEOREM CodexEvidenceHolds == ASSUME ImportAnswered PROVE Codex!Spec => []Codex!CleanIsTrue
<1>1. CodexInv /\ CodexFiles /\ CloseInv => Codex!CleanIsTrue
  BY DEF CodexInv, CodexType, CodexPublished, CodexCustody, CodexFiles, CloseInv, Codex!CleanIsTrue, Codex!Disposition
<1> QED
  BY <1>1, CodexInvHolds, CodexCloseHolds, CodexFilesHold, PTL

-----------------------------------------------------------------------------
(* Amp *)

AmpType ==
    /\ pc \in {"none", "boot", "run", "consume", "drain", "publish", "unwind", "teardown", "exit", "done"}
    /\ result \in {"none", "completed", "failed", "cancelled"}
    /\ cleanup \in {"none", "clean", "not-created", "unverified"}
    /\ sdk \in {"none", "running", "killed", "closed"}
    /\ stream \in [events : Nat, terminal : {"none", "completed", "failed"}]
    /\ loc \in [outcome : {"completed", "failed", "cancelled", "timeout"}, terminal : BOOLEAN]

\* The thread is not started before its starter says so, and an operation
\* cancelled until then creates nothing when it is.
Uncreated == pc \in {"none", "boot", "teardown", "exit", "done"} /\ sdk = "none" /\ ~loc.terminal

AmpThread ==
    /\ starter # "started" => pc = "none"
    /\ pc \in {"none", "boot", "run"} => sdk = "none"
    /\ result # "none" <=> pc \in {"exit", "done"}
    /\ result # "none" => result = loc.outcome
    /\ pc \in {"none", "boot", "run", "consume", "drain", "publish"} => loc.outcome = "failed" /\ published = {}
    /\ pc = "unwind" => published = {}
    /\ loc.outcome = "timeout" => pc = "unwind"
    /\ loc.outcome = "completed" => published = {"continuation", "turn"} /\ stream.terminal = "completed"
    /\ loc.outcome = "cancelled" => published = {} /\ cancelled
    /\ kill => cancelled
    /\ pc \in {"drain", "publish"} => stream.terminal # "none"
    /\ loc.terminal =>
          pc \in {"publish", "teardown", "exit", "done"} /\ sdk = "closed" /\ stream.terminal # "none"

AmpClose ==
    /\ closer \in {"out", "join", "alive", "store"}
    /\ closer # "out" => cleanup = "none" /\ (result # "none" \/ cancelled)
    /\ closer = "store" => pc = "done" \/ (cancelled /\ Uncreated)
    /\ cleanup = "clean" => result # "none" /\ loc.terminal
    /\ cleanup = "not-created" => sdk = "none" /\ (pc = "done" \/ (cancelled /\ Uncreated))

AmpInv == AmpType /\ AmpThread /\ AmpClose

\* Every step keeps the Amp invariant (amp.py, _AmpRuntimeOperation).
LEMMA AmpInvHolds == Amp!Spec => []AmpInv
<1>1. Amp!Init => AmpInv
  BY DEF Amp!Init, AmpInv, AmpType, AmpThread, AmpClose, Uncreated
<1>2. AmpInv /\ [Amp!Next]_(Amp!vars) => AmpInv'
  <2> SUFFICES ASSUME AmpInv, [Amp!Next]_(Amp!vars)
               PROVE  AmpInv'
    OBVIOUS
  <2> USE DEF AmpInv, AmpType, AmpThread, AmpClose, Uncreated,
              Amp!op, Amp!host, Amp!At, Amp!Goto, Amp!Fail, Amp!Settled
  <2>1. CASE UNCHANGED Amp!vars
    BY <2>1 DEF Amp!vars
  <2>2. CASE Amp!StartStep
    BY <2>2 DEF Amp!StartStep, Amp!Bind, Amp!BindCancels, Amp!StartThread, Amp!CancelOperation
  <2>3. CASE Amp!CancelAttachment \/ Amp!CancelReaches \/ Amp!CancelHandle
    BY <2>3 DEF Amp!CancelAttachment, Amp!CancelReaches, Amp!CancelHandle, Amp!CancelOperation
  <2>4. CASE Amp!SettleEnter
    BY <2>4 DEF Amp!SettleEnter
  <2>5. CASE Amp!SettleJoin
    BY <2>5 DEF Amp!SettleJoin
  <2>6. CASE Amp!SettleStore
    BY <2>6 DEF Amp!SettleStore, Amp!Evidence
  <2>7. CASE Amp!Boot \/ Amp!Run \/ Amp!Interrupt
    BY <2>7 DEF Amp!Boot, Amp!Run, Amp!Interrupt
  <2>8. CASE Amp!Unwind
    BY <2>8 DEF Amp!Unwind
  <2>13. CASE Amp!Drain
    BY <2>13, Zenon DEF Amp!Drain
  <2>9. CASE Amp!Publish
    BY <2>9 DEF Amp!Publish
  <2>10. CASE Amp!Teardown \/ Amp!Exit
    BY <2>10 DEF Amp!Teardown, Amp!Exit
  <2>11. CASE Amp!ReadEvent
    <3> DEFINE next == [stream EXCEPT !.events = @ + 1]
    <3>4. next \in [events : Nat, terminal : {"none", "completed", "failed"}]
      OBVIOUS
    <3>1. stream' \in [events : Nat, terminal : {"none", "completed", "failed"}]
      <4>1. \/ stream' = stream \/ stream' = next
            \/ \E t \in {"completed", "failed"} : stream' = [next EXCEPT !.terminal = t]
        BY <2>11 DEF Amp!ReadEvent
      <4> QED
        BY <3>4, <4>1, Zenon
    <3>2. CASE UNCHANGED <<pc, loc>>
      BY <2>11, <3>1, <3>2 DEF Amp!ReadEvent
    <3>3. CASE Amp!Fail("failed") /\ UNCHANGED stream
      BY <2>11, <3>3 DEF Amp!ReadEvent
    <3> QED
      BY <2>11, <3>2, <3>3 DEF Amp!ReadEvent
  <2>14. CASE Amp!StreamEnds
    BY <2>14 DEF Amp!StreamEnds
  <2>12. CASE Amp!Expire
    BY <2>12 DEF Amp!Expire
  <2> QED
    BY <2>1, <2>2, <2>3, <2>4, <2>5, <2>6, <2>7, <2>8, <2>9, <2>10, <2>11, <2>12, <2>13, <2>14, Zenon
       DEF Amp!Next, Amp!HostStep, Amp!TaskStep, Amp!StreamStep
<1> QED
  BY <1>1, <1>2, PTL DEF Amp!Spec

\* An Amp operation keeps the contract: it settles once, is cancelled once and
\* only before that, and its evidence is given once and is never "clean"
\* before the result (amp.py, _AmpRuntimeOperation).
THEOREM AmpImplementsContract == Amp!Spec => ImplementsContract
<1>1. Amp!Init => Contract!Init
  BY DEF Amp!Init, Contract!Init
<1>2. AmpInv /\ AmpInv' /\ [Amp!Next]_(Amp!vars) => [Contract!Next]_(Contract!opVars)
  <2> SUFFICES ASSUME AmpInv, AmpInv', [Amp!Next]_(Amp!vars)
               PROVE  [Contract!Next]_(Contract!opVars)
    OBVIOUS
  <2> USE DEF Contract!Next, Contract!opVars, Amp!op, Amp!host, Amp!At
  <2>1. CASE UNCHANGED Amp!op
    BY <2>1
  <2>2. CASE Amp!BindCancels \/ Amp!CancelReaches \/ Amp!CancelHandle
    BY <2>1, <2>2
       DEF Amp!BindCancels, Amp!CancelReaches, Amp!CancelHandle, Amp!CancelOperation, Contract!Cancel
  <2>3. CASE Amp!SettleStore
    BY <2>3 DEF Amp!SettleStore, Contract!Close, Contract!Dispositions, AmpInv, AmpType, AmpClose, AmpThread
  <2>4. CASE Amp!Teardown
    BY <2>4 DEF Amp!Teardown, Contract!Settle, Contract!Outcomes, AmpInv, AmpType, AmpThread
  <2>5. CASE Amp!Bind \/ Amp!StartThread \/ Amp!CancelAttachment \/ Amp!SettleEnter \/ Amp!SettleJoin \/ Amp!Expire
    BY <2>1, <2>5
       DEF Amp!Bind, Amp!StartThread, Amp!CancelAttachment, Amp!SettleEnter, Amp!SettleJoin, Amp!Expire
  <2>6. CASE Amp!Boot \/ Amp!Run \/ Amp!Interrupt \/ Amp!Unwind \/ Amp!Drain \/ Amp!Publish \/ Amp!Exit
    BY <2>1, <2>6
       DEF Amp!Boot, Amp!Run, Amp!Interrupt, Amp!Unwind, Amp!Drain, Amp!Publish, Amp!Exit
  <2>7. CASE Amp!StreamStep
    BY <2>1, <2>7 DEF Amp!StreamStep, Amp!ReadEvent, Amp!StreamEnds
  <2> QED
    BY <2>1, <2>2, <2>3, <2>4, <2>5, <2>6, <2>7
       DEF Amp!Next, Amp!StartStep, Amp!HostStep, Amp!TaskStep, Amp!vars
<1> QED
  BY <1>1, <1>2, AmpInvHolds, PTL DEF Amp!Spec, ImplementsContract, Contract!Spec

\* The Amp evidence is true when it is given and stays true, also of a thread
\* that is started after a cancelled operation was closed.
THEOREM AmpEvidenceHolds == Amp!Spec => []Amp!EvidenceIsTrue
<1>1. AmpInv => Amp!EvidenceIsTrue
  BY DEF AmpInv, AmpThread, AmpClose, Amp!EvidenceIsTrue
<1> QED
  BY <1>1, AmpInvHolds, PTL

\* A completed Amp turn has its output, its continuation and the provider's
\* success; a cancelled one published nothing.
THEOREM AmpOutcomeHolds == Amp!Spec => []AmpOutcome
<1>1. AmpInv => AmpOutcome
  BY DEF AmpInv, AmpThread, AmpOutcome, Amp!CompletedIsPublished, Amp!CancelledPublishesNothing
<1> QED
  BY <1>1, AmpInvHolds, PTL

-----------------------------------------------------------------------------
(* The four together *)

\* Whichever runtime runs an operation, what it published agrees with its
\* outcome (_Operation._run and its counterparts).
THEOREM PublicationAlwaysFollows == RuntimeSpec => []PublicationFollowsOutcome
<1>1. /\ part = "pi" /\ PiOutcome => PublicationFollowsOutcome
      /\ part = "claude" /\ ClaudeOutcome => PublicationFollowsOutcome
      /\ part = "codex" /\ CodexOutcome => PublicationFollowsOutcome
      /\ part = "amp" /\ AmpOutcome => PublicationFollowsOutcome
  BY DEF PublicationFollowsOutcome
<1> QED
  BY <1>1, PiOutcomeHolds, ClaudeOutcomeHolds, CodexOutcomeHolds, AmpOutcomeHolds, PTL DEF RuntimeSpec

\* Whichever runtime runs an operation, the evidence its close returns is true
\* (close and _run's finally).
THEOREM EvidenceIsAlwaysTrue ==
    ASSUME OneCloser, LeaseAnswered, ImportAnswered PROVE RuntimeSpec => []EvidenceIsTrue
<1>1. /\ part = "pi" /\ Pi!CleanIsTrue => EvidenceIsTrue
      /\ part = "claude" /\ Claude!CleanIsTrue => EvidenceIsTrue
      /\ part = "codex" /\ Codex!CleanIsTrue => EvidenceIsTrue
      /\ part = "amp" /\ Amp!EvidenceIsTrue => EvidenceIsTrue
  BY DEF EvidenceIsTrue
<1> QED
  BY <1>1, PiEvidenceHolds, ClaudeEvidenceHolds, CodexEvidenceHolds, AmpEvidenceHolds, PTL DEF RuntimeSpec

\* Whichever runtime runs an operation, it implements operation.py's contract.
THEOREM RuntimesImplementContract == ASSUME OneCloser PROVE RuntimeSpec => ImplementsContract
  BY PiImplementsContract, ClaudeImplementsContract, CodexImplementsContract, AmpImplementsContract, PTL
     DEF RuntimeSpec
=============================================================================
