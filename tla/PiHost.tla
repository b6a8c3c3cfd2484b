------------------------------- MODULE PiHost -------------------------------
(***************************************************************************)
(* The Pi A2 host (petrus/agenticus/runtime/pi_a2_host.py:                 *)
(* _PiA2RuntimeHost, _HostOperation, _ReplayOperation, _BodyStore).        *)
(*                                                                         *)
(* A host process owns the one-shot authority, the territories and two     *)
(* databases: the operation ledger of PiRecovery and the private bodies.   *)
(* An operation is finalized by the first of its waiters and closers, in   *)
(* an order that must survive a crash between any two steps.  start and    *)
(* close hold the lifecycle lock.  The adapter's operation is any that     *)
(* keeps the contract of RuntimeOperation.                                 *)
(***************************************************************************)
EXTENDS Integers, FiniteSets

CONSTANTS
    Ops, Waiters, Closers,
    MaxCrashes,
    MaxFailures,   \* database writes refused or answered with an error
    Faults

VARIABLES
    ledger,     \* [Ops -> row of the operation ledger]
    bodies,     \* [Ops -> row of the body store: body, aggregate_verified]
    territory,  \* the operations whose territory exists
    proc,       \* up, closed, authority, keys supplied, close verdict
    life,       \* the start or close that holds the lifecycle lock
    inner,      \* [Ops -> the adapter's operation]
    staged,     \* operations with staged output and continuation
    handle,     \* [Ops -> the _HostOperation]
    fin,        \* [Ops -> the finalization in progress]
    thread,     \* [Waiters \cup Closers -> what it does, and to which operation]
    started,    \* [Ops -> inner operations ever started]
    observed,   \* [Ops -> outcomes a wait or a replay returned, ever]
    crashes, failures

durable == <<ledger, bodies, territory>>
ghosts == <<started, observed>>
budget == <<crashes, failures>>
vars == <<durable, proc, life, inner, staged, handle, fin, thread, ghosts, budget>>

NoRow == [phase |-> "absent", outcome |-> "none", cleanup |-> "unverified"]
NoBody == [body |-> "absent", verified |-> FALSE]
NoInner == [exists |-> FALSE, result |-> "none", cancelled |-> FALSE, evidence |-> "none"]
NoHandle == [made |-> FALSE, active |-> FALSE, settlement |-> "none", cleanup |-> "none", closed |-> FALSE]
NoFin == [at |-> "none", by |-> "none", result |-> "none", evidence |-> "none"]
Down == [up |-> FALSE, closed |-> FALSE, authority |-> "none", supplied |-> 0, verdict |-> "none"]
Free == [doing |-> "none", op |-> CHOOSE o \in Ops : TRUE, at |-> "none", ops |-> {}]
Out == [pc |-> "out", op |-> CHOOSE o \in Ops : TRUE]

Init ==
    /\ ledger = [o \in Ops |-> NoRow] /\ bodies = [o \in Ops |-> NoBody] /\ territory = {}
    /\ proc = Down /\ life = Free
    /\ inner = [o \in Ops |-> NoInner] /\ staged = {}
    /\ handle = [o \in Ops |-> NoHandle] /\ fin = [o \in Ops |-> NoFin]
    /\ thread = [t \in Waiters \cup Closers |-> Out]
    /\ started = [o \in Ops |-> 0] /\ observed = [o \in Ops |-> {}]
    /\ crashes = 0 /\ failures = 0

May(fault) == fault \in Faults
Verified(evidence) == evidence \in {"clean", "not-created"}

\* A transaction: committed, refused, or committed with an error for answer.
Write(table, written, done, raised) ==
    \/ table' = written /\ done /\ UNCHANGED failures
    \/ /\ failures < MaxFailures /\ failures' = failures + 1
       /\ table' \in {table, written}
       /\ raised

--------------------------------------------------------------------------
(* The process                                                             *)

\* __init__: rows of a process that may have crossed are indeterminate.
Boot ==
    /\ ~proc.up
    /\ proc' = [Down EXCEPT !.up = TRUE]
    /\ ledger' = [o \in Ops |-> IF ledger[o].phase # "executing" THEN ledger[o]
                                ELSE [phase |-> "settled", outcome |-> "indeterminate", cleanup |-> "unverified"]]
    /\ UNCHANGED <<bodies, territory, life, inner, staged, handle, fin, thread, ghosts, budget>>

\* The process dies, or ends after its host was closed.
Crash ==
    /\ proc.up /\ crashes < MaxCrashes
    /\ crashes' = crashes + 1
    /\ proc' = Down /\ life' = Free
    /\ inner' = [o \in Ops |-> NoInner] /\ staged' = {}
    /\ handle' = [o \in Ops |-> NoHandle] /\ fin' = [o \in Ops |-> NoFin]
    /\ thread' = [t \in Waiters \cup Closers |-> Out]
    /\ UNCHANGED <<durable, ghosts, failures>>

--------------------------------------------------------------------------
(* start, under the lifecycle lock                                         *)

Locked(o, at) == life.doing = "start" /\ life.op = o /\ life.at = at
Lock(o, at) == life' = [Free EXCEPT !.doing = "start", !.op = o, !.at = at]

Replayable(o) == ledger[o].phase = "settled" /\ Verified(ledger[o].cleanup) /\ bodies[o].verified

\* Known work is answered before authority or territory is touched: with its
\* live handle or a refusal, which change nothing, or by replay.
StartKnown(o) ==
    /\ proc.up /\ ~proc.closed /\ life = Free
    /\ ledger[o].phase # "absent" /\ ~handle[o].active
    /\ Replayable(o) /\ ledger[o].outcome \notin observed[o]
    /\ observed' = [observed EXCEPT ![o] = @ \cup {ledger[o].outcome}]
    /\ UNCHANGED <<durable, proc, life, inner, staged, handle, fin, thread, started, budget>>

\* New work is admitted in the ledger before anything is created.
StartAdmit(o) ==
    /\ proc.up /\ ~proc.closed /\ life = Free
    /\ ledger[o].phase = "absent"
    /\ Write(ledger, [ledger EXCEPT ![o].phase = "executing"], Lock(o, "authority"), UNCHANGED life)
    /\ UNCHANGED <<bodies, territory, proc, inner, staged, handle, fin, thread, ghosts, crashes>>

\* _connection: the key is asked for once in a host's life.
StartAuthority(o) ==
    /\ Locked(o, "authority")
    /\ IF proc.authority # "none" THEN Lock(o, IF proc.authority = "ready" THEN "open" ELSE "rollback") /\ UNCHANGED proc
       ELSE \E ready \in {TRUE} \cup (IF May("authority") THEN {FALSE} ELSE {}) :
                /\ proc' = [proc EXCEPT !.authority = IF ready THEN "ready" ELSE "requested", !.supplied = @ + 1]
                /\ Lock(o, IF ready THEN "open" ELSE "rollback")
    /\ UNCHANGED <<durable, inner, staged, handle, fin, thread, ghosts, budget>>

\* The territory may come to exist although opening it failed.
StartOpen(o) ==
    /\ Locked(o, "open")
    /\ \/ territory' = territory \cup {o} /\ Lock(o, "inner")
       \/ May("open") /\ territory' \in {territory, territory \cup {o}} /\ Lock(o, "rollback")
    /\ UNCHANGED <<ledger, bodies, proc, inner, staged, handle, fin, thread, ghosts, budget>>

StartInner(o) ==
    /\ Locked(o, "inner")
    /\ \/ /\ inner' = [inner EXCEPT ![o].exists = TRUE]
          /\ handle' = [handle EXCEPT ![o].made = TRUE, ![o].active = TRUE]
          /\ started' = [started EXCEPT ![o] = @ + 1]
          /\ life' = Free
       \/ May("inner") /\ Lock(o, "rollback") /\ UNCHANGED <<inner, handle, started>>
    /\ UNCHANGED <<durable, proc, staged, fin, thread, observed, budget>>

Finalize(o, at, by, result, evidence) ==
    fin' = [fin EXCEPT ![o] = [at |-> at, by |-> by, result |-> result, evidence |-> evidence]]

\* A territory is seen to be gone, or it is not and may still be there.
Removed(o, gone) ==
    IF gone THEN territory' = territory \ {o} ELSE May("destroy") /\ territory' \in {territory, territory \ {o}}

\* _rollback_attachment, then the failure is saved like a result; without
\* verified cleanup it is only recorded as indeterminate.
StartRollback(o) ==
    /\ Locked(o, "rollback")
    /\ \/ Removed(o, TRUE) /\ Finalize(o, "commit", "start", "failed", "not-created")
       \/ Removed(o, FALSE) /\ Finalize(o, "undo", "start", "indeterminate", "unverified")
    /\ Lock(o, "saving")
    /\ UNCHANGED <<ledger, bodies, proc, inner, staged, handle, thread, ghosts, budget>>

--------------------------------------------------------------------------
(* The adapter's operation                                                 *)

\* A completed one has staged both bodies; a failed one may have as well.
InnerSettles(o) ==
    /\ inner[o].exists /\ inner[o].result = "none"
    /\ \E r \in {"completed", "failed"} \cup (IF inner[o].cancelled THEN {"cancelled"} ELSE {}) :
           /\ inner' = [inner EXCEPT ![o].result = r]
           /\ \/ r = "completed" /\ staged' = staged \cup {o}
              \/ r # "completed" /\ staged' \in {staged} \cup (IF May("stage") THEN {staged \cup {o}} ELSE {})
    /\ UNCHANGED <<durable, proc, life, handle, fin, thread, ghosts, budget>>

InnerEvidence(o) ==
    IF inner[o].evidence # "none" THEN {inner[o].evidence}
    ELSE IF inner[o].result = "none" THEN {"unverified"} ELSE {"clean"} \cup (IF May("unclean") THEN {"unverified"} ELSE {})

--------------------------------------------------------------------------
(* wait and close of one _HostOperation                                    *)

Thread(t, to) == thread' = [thread EXCEPT ![t].pc = to]
Quiet == UNCHANGED <<durable, proc, life, inner, staged, ghosts, budget>>

\* wait, first: evidence of cleanup stands for a closed operation.
WaitEnter(w, o) ==
    /\ thread[w].pc \in {"out", "got"} /\ handle[o].made
    /\ thread' = [thread EXCEPT ![w] = [pc |-> IF handle[o].cleanup # "none" THEN "refused" ELSE "waiting", op |-> o]]
    /\ UNCHANGED <<handle, fin>> /\ Quiet

WaitInner(w) ==
    LET o == thread[w].op IN
    /\ thread[w].pc = "waiting"
    /\ \/ inner[o].result # "none" /\ Thread(w, "claim")
       \/ inner[o].evidence # "none" /\ Thread(w, "refused")
    /\ UNCHANGED <<handle, fin>> /\ Quiet

\* _claim_finalization: one at a time, and none after the evidence.
Unclaimed(o) == fin[o].at = "none"

WaitClaim(w) ==
    LET o == thread[w].op IN
    /\ thread[w].pc = "claim" /\ Unclaimed(o)
    /\ IF handle[o].cleanup # "none" THEN Thread(w, "refused") /\ UNCHANGED fin
       ELSE Thread(w, "finalizing") /\ Finalize(o, "inner", w, inner[o].result, "none")
    /\ UNCHANGED handle /\ Quiet

CloseClaim(c, o) ==
    /\ thread[c].pc = "out" /\ handle[o].made /\ Unclaimed(o)
    /\ handle' = [handle EXCEPT ![o].closed = TRUE]
    /\ thread' = [thread EXCEPT ![c] = [pc |-> IF handle[o].cleanup # "none" THEN "got" ELSE "finalizing", op |-> o]]
    /\ IF handle[o].cleanup # "none" THEN UNCHANGED fin ELSE Finalize(o, "receipt", c, "none", "none")
    /\ Quiet

--------------------------------------------------------------------------
(* _finalize_owned                                                         *)

FinAt(o, at) == fin[o].at = at
Goto(o, at) == fin' = [fin EXCEPT ![o].at = at]

\* close asks for the receipt; without one it cancels and waits the grace.
FinReceipt(o) ==
    /\ FinAt(o, "receipt")
    /\ IF inner[o].result # "none" THEN fin' = [fin EXCEPT ![o].at = "inner", ![o].result = inner[o].result] /\ UNCHANGED inner
       ELSE inner' = [inner EXCEPT ![o].cancelled = TRUE] /\ Goto(o, "grace")
    /\ UNCHANGED <<durable, proc, life, staged, handle, thread, ghosts, budget>>

FinGrace(o) ==
    /\ FinAt(o, "grace")
    /\ IF inner[o].result # "none" THEN fin' = [fin EXCEPT ![o].at = "inner", ![o].result = inner[o].result]
       ELSE May("grace") /\ Goto(o, "lost")
    /\ UNCHANGED <<inner, handle, thread, durable, proc, life, staged, ghosts, budget>>

FinInner(o) ==
    /\ FinAt(o, "inner")
    /\ \E e \in InnerEvidence(o) :
           /\ inner' = [inner EXCEPT ![o].evidence = e]
           /\ fin' = [fin EXCEPT ![o].at = "attachment", ![o].evidence = e]
    /\ UNCHANGED <<durable, proc, life, staged, handle, thread, ghosts, budget>>

\* The attachment is settled, and the territory must be seen to be gone.
FinAttachment(o) ==
    /\ FinAt(o, "attachment")
    /\ \/ Removed(o, TRUE) /\ Goto(o, IF Verified(fin[o].evidence) THEN "commit" ELSE "undo")
       \/ Removed(o, FALSE) /\ Goto(o, "undo")
    /\ UNCHANGED <<ledger, bodies, proc, life, inner, staged, handle, thread, ghosts, budget>>

\* _BodyStore.commit: what is staged is what the settlement says, and it is
\* not readable yet.
FinCommit(o) ==
    /\ FinAt(o, "commit")
    /\ IF (o \in staged) # (fin[o].result = "completed") THEN Goto(o, "undo") /\ UNCHANGED <<bodies, staged, failures>>
       ELSE /\ Write(bodies, [bodies EXCEPT ![o] = [body |-> fin[o].result, verified |-> FALSE]],
                     Goto(o, "ledger"), Goto(o, "undo"))
            /\ staged' = staged \ {o}
    /\ UNCHANGED <<ledger, territory, proc, life, inner, handle, thread, ghosts, crashes>>

\* The ledger keeps a first settlement.
Settled(o, outcome) ==
    IF ledger[o].phase = "executing" THEN [ledger EXCEPT ![o].phase = "settled", ![o].outcome = outcome] ELSE ledger

FinLedger(o) ==
    /\ FinAt(o, "ledger")
    /\ Write(ledger, Settled(o, fin[o].result), Goto(o, "upgrade"), Goto(o, "undo"))
    /\ UNCHANGED <<bodies, territory, proc, life, inner, staged, handle, thread, ghosts, crashes>>

FinUpgrade(o) ==
    /\ FinAt(o, "upgrade")
    /\ Write(ledger, [ledger EXCEPT ![o].cleanup = fin[o].evidence], Goto(o, "publish"), Goto(o, "undo"))
    /\ UNCHANGED <<bodies, territory, proc, life, inner, staged, handle, thread, ghosts, crashes>>

FinPublish(o) ==
    /\ FinAt(o, "publish")
    /\ Write(bodies, [bodies EXCEPT ![o].verified = TRUE], Goto(o, "done"), Goto(o, "undo"))
    /\ UNCHANGED <<ledger, territory, proc, life, inner, staged, handle, thread, ghosts, crashes>>

\* The claim is released: the start ends, or the waiter or closer returns.
Release(o, saved) ==
    /\ fin' = [fin EXCEPT ![o] = NoFin]
    /\ life' = IF fin[o].by = "start" THEN Free ELSE life
    /\ thread' = [t \in DOMAIN thread |->
                    IF t = fin[o].by THEN [thread[t] EXCEPT !.pc = IF saved \/ t \in Closers THEN "got" ELSE "error"] ELSE thread[t]]

FinDone(o) ==
    /\ FinAt(o, "done")
    /\ IF fin[o].by = "start" THEN UNCHANGED handle
       ELSE handle' = [handle EXCEPT ![o].settlement = fin[o].result, ![o].cleanup = fin[o].evidence, ![o].active = FALSE]
    /\ observed' = IF fin[o].by \in Waiters THEN [observed EXCEPT ![o] = @ \cup {fin[o].result}] ELSE observed
    /\ Release(o, TRUE)
    /\ UNCHANGED <<durable, proc, inner, staged, started, budget>>

\* Any failure: the bodies are dropped and the row, unless it is settled, is
\* indeterminate; that this fails too is ignored.
FinUndo(o) ==
    /\ FinAt(o, "undo")
    /\ staged' = staged \ {o}
    /\ Write(ledger, Settled(o, IF fin[o].by = "start" THEN fin[o].result ELSE "indeterminate"), TRUE, TRUE)
    /\ IF fin[o].by = "start" THEN UNCHANGED handle
       ELSE handle' = [handle EXCEPT ![o].cleanup = "unverified", ![o].active = FALSE]
    /\ Release(o, FALSE)
    /\ UNCHANGED <<bodies, territory, proc, inner, ghosts, crashes>>

--------------------------------------------------------------------------
(* _finalize_indeterminate_owned: a close that never got a receipt         *)

FinLost(o) ==
    /\ FinAt(o, "lost")
    /\ \E e \in InnerEvidence(o), gone \in BOOLEAN :
           /\ inner' = [inner EXCEPT ![o].evidence = e]
           /\ Removed(o, gone)
           /\ fin' = [fin EXCEPT ![o].at = "lost ledger", ![o].evidence = IF gone THEN e ELSE "unverified"]
    /\ UNCHANGED <<ledger, bodies, proc, life, staged, handle, thread, ghosts, budget>>

FinLostLedger(o) ==
    /\ FinAt(o, "lost ledger")
    /\ Write(ledger, Settled(o, "indeterminate"), Goto(o, "lost upgrade"),
             fin' = [fin EXCEPT ![o].at = "lost upgrade", ![o].evidence = "unverified"])
    /\ UNCHANGED <<bodies, territory, proc, life, inner, staged, handle, thread, ghosts, crashes>>

FinLostUpgrade(o) ==
    /\ FinAt(o, "lost upgrade")
    /\ Write(ledger, [ledger EXCEPT ![o].cleanup = fin[o].evidence],
             handle' = [handle EXCEPT ![o].cleanup = fin[o].evidence, ![o].active = FALSE],
             handle' = [handle EXCEPT ![o].cleanup = "unverified", ![o].active = FALSE])
    /\ staged' = staged \ {o}
    /\ Release(o, TRUE)
    /\ UNCHANGED <<bodies, territory, proc, inner, ghosts, crashes>>

--------------------------------------------------------------------------
(* close of the host, under the lifecycle lock                             *)

HostClose ==
    /\ proc.up /\ ~proc.closed /\ life = Free
    /\ proc' = [proc EXCEPT !.closed = TRUE]
    /\ life' = [Free EXCEPT !.doing = "close", !.ops = {o \in Ops : handle[o].active}]
    /\ UNCHANGED <<durable, inner, staged, handle, fin, thread, ghosts, budget>>

\* Every operation still active is closed; the host waits for its claim.
HostCloseOperation(o) ==
    /\ life.doing = "close" /\ o \in life.ops /\ handle[o].cleanup = "none" /\ Unclaimed(o)
    /\ \A p \in Ops : fin[p].by # "host"
    /\ handle' = [handle EXCEPT ![o].closed = TRUE]
    /\ Finalize(o, "receipt", "host", "none", "none")
    /\ UNCHANGED <<durable, proc, life, inner, staged, thread, ghosts, budget>>

\* The evidence, the rows, the territories and the connection decide what close answers.
HostVerdict ==
    /\ life.doing = "close" /\ \A o \in life.ops : handle[o].cleanup # "none" /\ Unclaimed(o)
    /\ LET clean == /\ \A o \in life.ops : Verified(handle[o].cleanup)
                    /\ \A o \in Ops : ledger[o].phase # "absent" => Verified(ledger[o].cleanup)
                    /\ \A o \in Ops : handle[o].made => o \notin territory
       IN  \E erased \in {TRUE} \cup (IF May("erase") THEN {FALSE} ELSE {}) :
               proc' = [proc EXCEPT !.verdict = IF clean /\ erased THEN "clean" ELSE "uncertain"]
    /\ life' = Free
    /\ UNCHANGED <<durable, inner, staged, handle, fin, thread, ghosts, budget>>

Start(o) == StartKnown(o) \/ StartAdmit(o)
StartStep(o) == StartAuthority(o) \/ StartOpen(o) \/ StartInner(o) \/ StartRollback(o)

FinStep(o) ==
    \/ FinReceipt(o) \/ FinGrace(o) \/ FinInner(o) \/ FinAttachment(o) \/ FinCommit(o) \/ FinLedger(o)
    \/ FinUpgrade(o) \/ FinPublish(o) \/ FinDone(o) \/ FinUndo(o)
    \/ FinLost(o) \/ FinLostLedger(o) \/ FinLostUpgrade(o)

Next ==
    \/ Boot \/ Crash \/ HostClose \/ HostVerdict
    \/ \E o \in Ops : Start(o) \/ StartStep(o) \/ InnerSettles(o) \/ FinStep(o) \/ HostCloseOperation(o)
    \/ \E w \in Waiters : WaitInner(w) \/ WaitClaim(w) \/ \E o \in Ops : WaitEnter(w, o)
    \/ \E c \in Closers, o \in Ops : CloseClaim(c, o)

Spec == Init /\ [][Next]_vars

\* Threads run on, the operation of the adapter settles (PiRuntime: it has a
\* wall timeout), a host that is closing goes on.
FairSpec ==
    /\ Spec
    /\ \A o \in Ops : WF_vars(StartStep(o)) /\ WF_vars(InnerSettles(o)) /\ WF_vars(FinStep(o)) /\ WF_vars(HostCloseOperation(o))
    /\ \A w \in Waiters : WF_vars(WaitInner(w)) /\ WF_vars(WaitClaim(w))
    /\ WF_vars(HostVerdict)

--------------------------------------------------------------------------
(* Properties                                                              *)

\* "become loadable only after aggregate runtime, Attachment, and territory
\* cleanup is verified": in every process, whatever crashed in between.
LoadableAfterCleanup ==
    \A o \in Ops : bodies[o].verified =>
        /\ o \notin territory
        /\ ledger[o].phase = "settled" /\ Verified(ledger[o].cleanup)
        /\ bodies[o].body = ledger[o].outcome

\* No operation identity crosses to the provider twice, in any process.
AtMostOnce == \A o \in Ops : started[o] <= 1

\* What a wait or a replay returned once, every later process replays: it
\* was durable, readable and clean before the wait returned.
ReturnedIsReplayable ==
    \A o \in Ops : observed[o] # {} => Replayable(o) /\ observed[o] = {ledger[o].outcome}

\* The key is asked for at most once by a host, however many starts need it.
AuthorityOnce == proc.supplied <= 1

\* A host that says it closed clean leaves no territory behind, its own or
\* one of a process before it.
ClosedCleanIsClean == proc.verdict = "clean" => territory = {}

\* Evidence once given by a handle is never replaced and neither is its
\* settlement, whoever finalizes next or whatever arrives late.
HandleKept ==
    \A o \in Ops : handle[o].cleanup # "none" /\ handle'[o].made =>
        handle'[o].cleanup = handle[o].cleanup /\ handle'[o].settlement = handle[o].settlement

\* A wait that has not ended, and a host that is closing.
WaitOwed(w) == thread[w].pc \in {"waiting", "claim", "finalizing"}
CloseOwed == life.doing = "close" /\ proc.verdict = "none"

\* "After terminal settlement, every wait returns the same immutable
\* result": only a close makes a wait raise operation-closed.
RefusedOnlyAfterClose ==
    \A w \in Waiters : thread[w].pc = "refused" => handle[thread[w].op].closed \/ handle[thread[w].op].settlement = "none"
=============================================================================
