------------------------------ MODULE PiRecovery ------------------------------
(***************************************************************************)
(* The durable boundary around the Pi adapter                              *)
(* (petrus/agenticus/runtime/pi_recovery.py: SqlitePiOperationLedger,      *)
(* _DurableOperation, _ReplayOperation, PiRecoveredRuntime) and the        *)
(* adapter's own registry (pi.py: PiRuntimeAdapter.start, receipt, evict). *)
(*                                                                         *)
(* The ledger survives the process; the adapter's operations and the       *)
(* wrappers around them do not.  Every ledger write is a transaction that  *)
(* may be refused, or committed with its answer lost, and the process may  *)
(* die between any two steps of start and close.  The adapter's operation  *)
(* is any operation that keeps the contract of RuntimeOperation.           *)
(***************************************************************************)
EXTENDS Integers, Sequences, FiniteSets, SequencesExt

CONSTANTS
    Ops,           \* operation identities
    Fingerprints,  \* stable work identities asked for under them
    MaxCrashes,
    MaxFailures    \* ledger writes refused or answered with an error

VARIABLES
    ledger,     \* the pi_operations table, in sequence order
    up,         \* the process and its PiRecoveredRuntime exist
    inner,      \* [Ops -> the adapter's registered operation]
    live,       \* [Ops -> "none", "open", or the evidence of the wrapper]
    starting,   \* the start in progress, under the runtime's lock
    closing,    \* [Ops -> the close in progress, under the wrapper's lock]
    crossings,  \* [Ops -> operations the adapter ever started]
    observed,   \* [Ops -> outcomes a wait or a replay returned, ever]
    refused,    \* operations whose settlement met a different one
    crashes, failures

local == <<inner, live, starting, closing>>
ghosts == <<crossings, observed, refused>>
vars == <<ledger, up, local, ghosts, crashes, failures>>

NoInner == [result |-> "none", cancelled |-> FALSE, evidence |-> "none", exists |-> FALSE]
NoStart == [op |-> "none", at |-> "none"]
NoClose == [at |-> "none", evidence |-> "none", result |-> "none"]

Init ==
    /\ ledger = << >>
    /\ up = FALSE
    /\ inner = [o \in Ops |-> NoInner]
    /\ live = [o \in Ops |-> "none"]
    /\ starting = NoStart
    /\ closing = [o \in Ops |-> NoClose]
    /\ crossings = [o \in Ops |-> 0] /\ observed = [o \in Ops |-> {}] /\ refused = {}
    /\ crashes = 0 /\ failures = 0

--------------------------------------------------------------------------
(* SqlitePiOperationLedger                                                 *)

Known(o) == \E i \in DOMAIN ledger : ledger[i].op = o
Sequence(o) == SelectInSeq(ledger, LAMBDA r : r.op = o)
Row(o) == ledger[Sequence(o)]

NewRow(o, f) == [op |-> o, fingerprint |-> f, phase |-> "executing", outcome |-> "none",
                 cleanup |-> "unverified", acknowledged |-> FALSE]

\* _write: committed, or refused, or committed with the answer lost.
Write(table, done, raised) ==
    \/ ledger' = table /\ done /\ UNCHANGED failures
    \/ /\ failures < MaxFailures
       /\ failures' = failures + 1
       /\ ledger' \in {table, ledger}
       /\ raised

\* recover: every row the last process may have been executing.
Recovered ==
    [i \in DOMAIN ledger |->
        IF ledger[i].phase = "executing"
        THEN [ledger[i] EXCEPT !.phase = "settled", !.outcome = "indeterminate", !.cleanup = "unverified"]
        ELSE ledger[i]]


\* settle: the first settlement stays; an equal one is a repetition.
Conflicts(o, outcome) == Row(o).phase = "settled" /\ Row(o).outcome # outcome

Settled(o, outcome) == [ledger EXCEPT ![Sequence(o)].phase = "settled", ![Sequence(o)].outcome = outcome]

\* upgrade_cleanup: only verified evidence replaces "unverified".
Upgraded(o, evidence) ==
    IF Row(o).cleanup = "unverified" THEN [ledger EXCEPT ![Sequence(o)].cleanup = evidence] ELSE ledger

\* watermark: the longest acknowledged prefix.
watermark ==
    CHOOSE n \in 0 .. Len(ledger) :
        /\ \A i \in 1 .. n : ledger[i].phase = "settled" /\ ledger[i].acknowledged
        /\ n < Len(ledger) => ~(ledger[n + 1].phase = "settled" /\ ledger[n + 1].acknowledged)

--------------------------------------------------------------------------
(* PiRecoveredRuntime.__init__                                             *)

Boot ==
    /\ ~up
    /\ Write(Recovered, up' = TRUE, UNCHANGED up)
    /\ UNCHANGED <<local, ghosts, crashes>>

Crash ==
    /\ up /\ crashes < MaxCrashes
    /\ crashes' = crashes + 1
    /\ up' = FALSE
    /\ inner' = [o \in Ops |-> NoInner]
    /\ live' = [o \in Ops |-> "none"]
    /\ starting' = NoStart
    /\ closing' = [o \in Ops |-> NoClose]
    /\ UNCHANGED <<ledger, ghosts, failures>>

--------------------------------------------------------------------------
(* PiRecoveredRuntime.start, under the runtime's lock                      *)

\* admit: the row is written before the adapter may start.
StartAdmit(o, f) ==
    /\ up /\ starting = NoStart
    /\ IF Known(o)
       THEN starting' = (IF Row(o).fingerprint = f THEN [op |-> o, at |-> "admitted"] ELSE NoStart)
            /\ UNCHANGED <<ledger, failures>>
       ELSE Write(Append(ledger, NewRow(o, f)), starting' = [op |-> o, at |-> "admitted"], UNCHANGED starting)
    /\ UNCHANGED <<up, inner, live, closing, ghosts, crashes>>

\* A live wrapper is returned; a settled row is replayed without the adapter.
StartReturn ==
    /\ starting.at = "admitted"
    /\ live[starting.op] # "none" \/ Row(starting.op).phase = "settled"
    /\ observed' =
        IF live[starting.op] = "none"
        THEN [observed EXCEPT ![starting.op] = @ \cup {Row(starting.op).outcome}]
        ELSE observed
    /\ starting' = NoStart
    /\ UNCHANGED <<ledger, up, inner, live, closing, crossings, refused, crashes, failures>>

\* PiRuntimeAdapter.start: its registry, then a thread of its own.
StartAdapter ==
    LET o == starting.op IN
    /\ starting.at = "admitted"
    /\ live[o] = "none" /\ Row(o).phase = "executing"
    /\ \/ /\ inner' = [inner EXCEPT ![o] = IF @.exists THEN @ ELSE [NoInner EXCEPT !.exists = TRUE]]
          /\ crossings' = [crossings EXCEPT ![o] = IF inner[o].exists THEN @ ELSE @ + 1]
          /\ live' = [live EXCEPT ![o] = "open"]
          /\ starting' = NoStart
       \/ ~inner[o].exists /\ starting' = [starting EXCEPT !.at = "failed"] /\ UNCHANGED <<inner, live, crossings>>
    /\ UNCHANGED <<ledger, up, closing, observed, refused, crashes, failures>>

\* A refused start settles the row as failed, then as never created.
StartSettleFailed ==
    /\ starting.at = "failed"
    /\ Write(Settled(starting.op, "failed"), starting' = [starting EXCEPT !.at = "upgrade"], starting' = NoStart)
    /\ UNCHANGED <<up, inner, live, closing, ghosts, crashes>>

StartNotCreated ==
    /\ starting.at = "upgrade"
    /\ Write(Upgraded(starting.op, "not-created"), starting' = NoStart, starting' = NoStart)
    /\ UNCHANGED <<up, inner, live, closing, ghosts, crashes>>

--------------------------------------------------------------------------
(* The adapter's operation                                                 *)

InnerSettle(o) ==
    /\ inner[o].exists /\ inner[o].result = "none"
    /\ \E r \in {"completed", "failed", "cancelled"} :
          /\ (r = "cancelled") = inner[o].cancelled
          /\ inner' = [inner EXCEPT ![o].result = r]
    /\ UNCHANGED <<ledger, up, live, starting, closing, ghosts, crashes, failures>>

Cancel(o) ==
    /\ live[o] # "none"
    /\ inner[o].result = "none" /\ ~inner[o].cancelled
    /\ inner' = [inner EXCEPT ![o].cancelled = TRUE]
    /\ UNCHANGED <<ledger, up, live, starting, closing, ghosts, crashes, failures>>

--------------------------------------------------------------------------
(* _DurableOperation                                                       *)

Refuse(o) == refused' = refused \cup {o}

\* wait: the ledger settles before the result is returned.
Wait(o) ==
    /\ live[o] = "open" /\ closing[o] = NoClose
    /\ inner[o].result # "none" /\ inner[o].evidence = "none"
    /\ \/ Conflicts(o, inner[o].result) /\ Refuse(o) /\ UNCHANGED <<ledger, observed, failures>>
       \/ /\ ~Conflicts(o, inner[o].result)
          /\ Write(Settled(o, inner[o].result),
                   observed' = [observed EXCEPT ![o] = @ \cup {inner[o].result}], UNCHANGED observed)
          /\ UNCHANGED refused
    /\ UNCHANGED <<up, local, crossings, crashes>>

Closing(o, at) == closing' = [closing EXCEPT ![o].at = at]
CloseEnds(o) == closing' = [closing EXCEPT ![o] = NoClose]

\* close, first: a receipt that is already there is settled.
CloseReceipt(o) ==
    /\ live[o] = "open" /\ closing[o] = NoClose
    /\ \/ inner[o].result = "none" /\ Closing(o, "inner") /\ UNCHANGED <<ledger, refused, failures>>
       \/ /\ inner[o].result # "none" /\ Conflicts(o, inner[o].result)
          /\ Refuse(o) /\ UNCHANGED <<ledger, closing, failures>>
       \/ /\ inner[o].result # "none" /\ ~Conflicts(o, inner[o].result)
          /\ Write(Settled(o, inner[o].result), Closing(o, "inner"), UNCHANGED closing)
          /\ UNCHANGED refused
    /\ UNCHANGED <<up, inner, live, starting, crossings, observed, crashes>>

\* Then the adapter's operation is closed, if it may be.
CloseInner(o) ==
    /\ closing[o].at = "inner"
    /\ \/ /\ inner[o].result = "none" /\ ~inner[o].cancelled
          /\ CloseEnds(o) /\ UNCHANGED inner
       \/ /\ inner[o].result # "none" \/ inner[o].cancelled
          /\ \E e \in IF inner[o].evidence # "none" THEN {inner[o].evidence}
                      ELSE IF inner[o].result = "none" THEN {"unverified"} ELSE {"clean", "unverified"} :
                /\ inner' = [inner EXCEPT ![o].evidence = e]
                /\ closing' = [closing EXCEPT ![o].at = "again", ![o].evidence = e]
    /\ UNCHANGED <<ledger, up, live, starting, ghosts, crashes, failures>>

\* Without a receipt even now, the operation is indeterminate.
CloseReceiptAgain(o) ==
    /\ closing[o].at = "again"
    /\ closing' = [closing EXCEPT
          ![o].at = "settle",
          ![o].result = IF inner[o].result = "none" THEN "indeterminate" ELSE inner[o].result]
    /\ UNCHANGED <<ledger, up, inner, live, starting, ghosts, crashes, failures>>

CloseSettle(o) ==
    /\ closing[o].at = "settle"
    /\ \/ Conflicts(o, closing[o].result) /\ Refuse(o) /\ CloseEnds(o) /\ UNCHANGED <<ledger, failures>>
       \/ /\ ~Conflicts(o, closing[o].result)
          /\ Write(Settled(o, closing[o].result), Closing(o, "upgrade"), CloseEnds(o))
          /\ UNCHANGED refused
    /\ UNCHANGED <<up, inner, live, starting, crossings, observed, crashes>>

CloseUpgrade(o) ==
    /\ closing[o].at = "upgrade"
    /\ Write(Upgraded(o, closing[o].evidence), live' = [live EXCEPT ![o] = closing[o].evidence], UNCHANGED live)
    /\ CloseEnds(o)
    /\ UNCHANGED <<up, inner, starting, ghosts, crashes>>

--------------------------------------------------------------------------
(* Acknowledgement and eviction                                            *)

Acknowledge(o) ==
    /\ up /\ Known(o)
    /\ Row(o).phase = "settled" /\ ~Row(o).acknowledged
    /\ Write([ledger EXCEPT ![Sequence(o)].acknowledged = TRUE], TRUE, TRUE)
    /\ UNCHANGED <<up, local, ghosts, crashes>>

Evictable == {o \in Ops : live[o] \notin {"none", "open"} /\ Row(o).acknowledged /\ Sequence(o) <= watermark}

Evict ==
    /\ starting = NoStart /\ Evictable # {}
    /\ live' = [o \in Ops |-> IF o \in Evictable THEN "none" ELSE live[o]]
    /\ inner' = [o \in Ops |-> IF o \in Evictable THEN NoInner ELSE inner[o]]
    /\ UNCHANGED <<ledger, up, starting, closing, ghosts, crashes, failures>>

Start ==
    \/ \E o \in Ops, f \in Fingerprints : StartAdmit(o, f)
    \/ StartReturn \/ StartAdapter \/ StartSettleFailed \/ StartNotCreated

Operate(o) ==
    \/ InnerSettle(o) \/ Cancel(o) \/ Wait(o) \/ Acknowledge(o)
    \/ CloseReceipt(o) \/ CloseInner(o) \/ CloseReceiptAgain(o) \/ CloseSettle(o) \/ CloseUpgrade(o)

Next == Boot \/ Crash \/ Start \/ Evict \/ \E o \in Ops : Operate(o)

Spec == Init /\ [][Next]_vars

--------------------------------------------------------------------------
(* Properties                                                              *)

\* "at-most-once per operation identity": whatever is started again, in this
\* process or a later one, the adapter starts one operation per identity.
AtMostOnce == \A o \in Ops : crossings[o] <= 1

\* Every wait and every replay of one operation, in any process, returns the
\* same outcome: it was durable before the first of them returned.
OneOutcome == \A o \in Ops : Cardinality(observed[o]) <= 1

\* A settled row is final and verified cleanup evidence is never replaced;
\* rows are only appended.
RowKept ==
    \A i \in DOMAIN ledger :
       /\ i \in DOMAIN ledger' /\ ledger'[i].op = ledger[i].op
       /\ ledger[i].phase = "settled" => ledger'[i].phase = "settled" /\ ledger'[i].outcome = ledger[i].outcome
       /\ ledger[i].cleanup # "unverified" => ledger'[i].cleanup = ledger[i].cleanup
       /\ ledger[i].acknowledged => ledger'[i].acknowledged

\* Only the process that is executing a row leaves it "executing": after a
\* restart no row of the last process is, unless its start failed halfway.
ExecutingIsOwned ==
    up => \A i \in DOMAIN ledger :
        ledger[i].phase = "executing" /\ crossings[ledger[i].op] > 0 => live[ledger[i].op] = "open"

\* What the ledger says of the cleanup is what the adapter's operation said,
\* and "not-created" is only said of work that never crossed.
CleanupIsTrue ==
    \A i \in DOMAIN ledger :
        LET o == ledger[i].op IN
        /\ ledger[i].cleanup = "not-created" => crossings[o] = 0
        /\ up /\ live[o] # "none" /\ ledger[i].cleanup = "clean" => inner[o].evidence = "clean"

\* A handle leaves the process only when its row and every earlier row are
\* settled and acknowledged.
EvictedIsAcknowledged ==
    \A o \in Ops : live[o] # "none" /\ live'[o] = "none" /\ up' =>
        \A i \in 1 .. Sequence(o) : ledger[i].phase = "settled" /\ ledger[i].acknowledged

\* "Lost SQLite acknowledgements are retried against immutable facts": no
\* settlement of a wait or a close ever meets a different one in the ledger.
NoSettlementConflict == refused = {}
=============================================================================
