---------------------------- MODULE CodexAdapter ----------------------------
(***************************************************************************)
(* The Codex Gondolin adapter and the Activity that uses it                *)
(* (petrus/agenticus/runtime/codex.py: CodexGondolinRuntimeAdapter,        *)
(* CodexRuntimeAdapter.start, _CodexGondolinActivityAdapter).              *)
(*                                                                         *)
(* Readiness is one field of the adapter, qualification a set of           *)
(* attachments; threads probe attachments while Activity attempts start    *)
(* operations in them.  What an operation does once its thread runs is     *)
(* CodexRuntime; here it settles.                                          *)
(***************************************************************************)
EXTENDS Integers, Sequences, FiniteSets

CONSTANTS
    Attachments,
    Probers,    \* threads that probe
    Targets,    \* the attachments each prober may probe
    Attempts,   \* Activity attempts, each a thread
    Keys,       \* what an operation identity binds: prompt, turn, versions
    MaxProbes,  \* probes begun per attachment
    MaxStarts,  \* operations created
    Faults

VARIABLES
    adapter,    \* installed, qualified attachments, registered operation
    guest,      \* the attachments that hold a private probe file
    latest,     \* last probe begun per attachment: serial and verdict
    prober,
    ops,        \* the operations created, in order
    attempt

vars == <<adapter, guest, latest, prober, ops, attempt>>
probing == <<guest, latest, prober>>

NoOp == 0

Idle == [pc |-> "out", at |-> CHOOSE a \in Attachments : TRUE, serial |-> 0, passed |-> FALSE]

Init ==
    /\ adapter = [installed |-> FALSE, qualified |-> {}, operation |-> NoOp]
    /\ guest = {}
    /\ latest = [a \in Attachments |-> [serial |-> 0, verdict |-> "none"]]
    /\ prober = [p \in Probers |-> Idle]
    /\ ops = <<>>
    /\ attempt = [s \in Attempts |-> [pc |-> "out", at |-> CHOOSE a \in Attachments : TRUE,
                                     key |-> CHOOSE k \in Keys : TRUE, op |-> NoOp]]

May(fault) == fault \in Faults

--------------------------------------------------------------------------
(* CodexGondolinRuntimeAdapter.probe                                       *)

ProbeAt(p, step) == prober[p].pc = step
Step(p, to) == prober' = [prober EXCEPT ![p].pc = to]

\* _record: a probe that is not READY withdraws the adapter's readiness.
Record(p, ready) ==
    LET q == prober[p]
    IN  /\ adapter' = [adapter EXCEPT !.installed = ready]
        /\ latest' = IF latest[q.at].serial # q.serial THEN latest
                     ELSE [latest EXCEPT ![q.at].verdict = IF ready THEN "ready" ELSE "failed"]
        /\ Step(p, IF ready THEN "qualify" ELSE "out")

\* Without an attachment there is nothing to probe.
ProbeNothing(p) ==
    /\ ProbeAt(p, "out") /\ adapter.installed
    /\ adapter' = [adapter EXCEPT !.installed = FALSE]
    /\ UNCHANGED <<probing, ops, attempt>>

\* The attachment loses its qualification before anything is tried.
ProbeBegins(p, a) ==
    /\ ProbeAt(p, "out") /\ a \in Targets[p]
    /\ latest[a].serial < MaxProbes
    /\ adapter' = [adapter EXCEPT !.qualified = @ \ {a}]
    /\ latest' = [latest EXCEPT ![a] = [serial |-> @.serial + 1, verdict |-> "none"]]
    /\ prober' = [prober EXCEPT ![p] = [pc |-> "deadline", at |-> a, serial |-> latest[a].serial + 1, passed |-> FALSE]]
    /\ UNCHANGED <<guest, ops, attempt>>

ProbeDeadline(p) ==
    /\ ProbeAt(p, "deadline")
    /\ \/ Step(p, "import") /\ UNCHANGED <<adapter, latest>>
       \/ May("deadline") /\ Record(p, FALSE)
    /\ UNCHANGED <<guest, ops, attempt>>

\* _private_file_probe: the import may fail with or without its effect.
ProbeImport(p) ==
    /\ ProbeAt(p, "import")
    /\ \/ guest' = guest \cup {prober[p].at} /\ Step(p, "check")
       \/ May("import") /\ guest' \in {guest, guest \cup {prober[p].at}} /\ Step(p, "clean")
    /\ UNCHANGED <<adapter, latest, ops, attempt>>

ProbeCheck(p) ==
    /\ ProbeAt(p, "check")
    /\ \E ok \in {TRUE} \cup (IF May("check") THEN {FALSE} ELSE {}) :
           prober' = [prober EXCEPT ![p].pc = "clean", ![p].passed = ok]
    /\ UNCHANGED <<adapter, guest, latest, ops, attempt>>

\* Delete and cleanup run whatever came before; only verified absence of
\* every private file lets the probe go on.
ProbeClean(p) ==
    /\ ProbeAt(p, "clean")
    /\ \/ guest' = guest \ {prober[p].at} /\ (IF prober[p].passed THEN Step(p, "client") /\ UNCHANGED <<adapter, latest>>
                                              ELSE Record(p, FALSE))
       \/ May("clean") /\ guest' \in {guest, guest \ {prober[p].at}} /\ Record(p, FALSE)
    /\ UNCHANGED <<ops, attempt>>

\* The commands in the guest: version and machine, then the two help texts.
ProbeClient(p) ==
    /\ ProbeAt(p, "client")
    /\ \/ Record(p, TRUE)
       \/ May("client") /\ Record(p, FALSE)
    /\ UNCHANGED <<guest, ops, attempt>>

\* The lock is taken again to add the attachment.
ProbeQualifies(p) ==
    /\ ProbeAt(p, "qualify")
    /\ adapter' = [adapter EXCEPT !.qualified = @ \cup {prober[p].at}]
    /\ Step(p, "out")
    /\ UNCHANGED <<guest, latest, ops, attempt>>

--------------------------------------------------------------------------
(* One Activity attempt: _CodexGondolinActivityAdapter.__call__            *)

AttemptAt(s, step) == attempt[s].pc = step
Attempting(s, to) == attempt' = [attempt EXCEPT ![s].pc = to]

\* The input is decoded and fenced to this attachment and connection.
AttemptBegins(s, a, k) ==
    /\ AttemptAt(s, "out")
    /\ \/ attempt' = [attempt EXCEPT ![s] = [pc |-> "heartbeat", at |-> a, key |-> k, op |-> NoOp]]
       \/ May("input") /\ Attempting(s, "refused")
    /\ UNCHANGED <<adapter, probing, ops>>

Heartbeat(s) ==
    /\ AttemptAt(s, "heartbeat")
    /\ Attempting(s, "qualified") \/ (May("stale") /\ Attempting(s, "refused"))
    /\ UNCHANGED <<adapter, probing, ops>>

\* CodexGondolinRuntimeAdapter.start
StartQualified(s) ==
    /\ AttemptAt(s, "qualified")
    /\ Attempting(s, IF attempt[s].at \in adapter.qualified THEN "ready" ELSE "refused")
    /\ UNCHANGED <<adapter, probing, ops>>

\* CodexRuntimeAdapter.start: readiness is read without the lock, then the
\* attachment and the continuation are validated.
StartReady(s) ==
    /\ AttemptAt(s, "ready")
    /\ IF ~adapter.installed THEN Attempting(s, "refused")
       ELSE Attempting(s, "register") \/ (May("validate") /\ Attempting(s, "refused"))
    /\ UNCHANGED <<adapter, probing, ops>>

SameKey(old, s) == old.key = attempt[s].key /\ old.at = attempt[s].at

\* Under the lock: readiness again, then the registered operation or a new one.
StartRegister(s) ==
    /\ AttemptAt(s, "register")
    /\ IF ~adapter.installed THEN Attempting(s, "refused") /\ UNCHANGED <<adapter, ops>>
       ELSE IF adapter.operation # NoOp
       THEN /\ IF SameKey(ops[adapter.operation], s)
               THEN attempt' = [attempt EXCEPT ![s].pc = "wait", ![s].op = adapter.operation]
               ELSE Attempting(s, "refused")
            /\ UNCHANGED <<adapter, ops>>
       ELSE /\ Len(ops) < MaxStarts
            /\ ops' = Append(ops, [at |-> attempt[s].at, key |-> attempt[s].key, state |-> "new"])
            /\ adapter' = [adapter EXCEPT !.operation = Len(ops) + 1]
            /\ attempt' = [attempt EXCEPT ![s].pc = "thread", ![s].op = Len(ops) + 1]
    /\ UNCHANGED probing

\* operation.start; the operation is forgotten when its thread cannot start.
StartThread(s) ==
    /\ AttemptAt(s, "thread")
    /\ \/ /\ ops' = [ops EXCEPT ![attempt[s].op].state = "running"]
          /\ Attempting(s, "wait") /\ UNCHANGED adapter
       \/ /\ May("thread")
          /\ adapter' = [adapter EXCEPT !.operation = NoOp]
          /\ Attempting(s, "refused") /\ UNCHANGED ops
    /\ UNCHANGED probing

OperationSettles(n) ==
    /\ ops[n].state = "running"
    /\ ops' = [ops EXCEPT ![n].state = "settled"]
    /\ UNCHANGED <<adapter, probing, attempt>>

\* wait raises once another attempt has closed the operation, unless it was
\* already waiting when the result came.
Wait(s) ==
    /\ AttemptAt(s, "wait")
    /\ ops[attempt[s].op].state \in {"settled", "closed"}
    /\ Attempting(s, "close") \/ (ops[attempt[s].op].state = "closed" /\ Attempting(s, "refused"))
    /\ UNCHANGED <<adapter, probing, ops>>

Close(s) ==
    /\ AttemptAt(s, "close")
    /\ ops' = [ops EXCEPT ![attempt[s].op].state = "closed"]
    /\ Attempting(s, "answered")
    /\ UNCHANGED <<adapter, probing>>

ProbeStep(p) ==
    \/ ProbeDeadline(p) \/ ProbeImport(p) \/ ProbeCheck(p) \/ ProbeClean(p)
    \/ ProbeClient(p) \/ ProbeQualifies(p)

AttemptStep(s) ==
    \/ Heartbeat(s) \/ StartQualified(s) \/ StartReady(s)
    \/ StartRegister(s) \/ StartThread(s) \/ Wait(s) \/ Close(s)

SomeOperationSettles == \E n \in DOMAIN ops : OperationSettles(n)

Next ==
    \/ \E p \in Probers : ProbeStep(p) \/ ProbeNothing(p) \/ \E a \in Attachments : ProbeBegins(p, a)
    \/ \E s \in Attempts : AttemptStep(s) \/ \E a \in Attachments, k \in Keys : AttemptBegins(s, a, k)
    \/ SomeOperationSettles

Spec == Init /\ [][Next]_vars

\* Threads that run go on, and an operation whose thread runs settles
\* (CodexRuntime: its command has a timeout).
FairSpec == Spec /\ WF_vars(SomeOperationSettles) /\ \A s \in Attempts : WF_vars(AttemptStep(s))

--------------------------------------------------------------------------
(* Properties                                                              *)

\* A qualified attachment that nobody probes holds no private file of a
\* probe: qualification is only given over verified absence.
QualifiedIsClean ==
    \A a \in adapter.qualified : (\A p \in Probers : ProbeAt(p, "out") \/ prober[p].at # a) => a \notin guest

\* A probe that failed revokes its attachment: while no later probe has
\* begun, the attachment is not qualified.
FailedReprobeRevokes == \A a \in Attachments : latest[a].verdict = "failed" => a \notin adapter.qualified

\* However many attempts start the operation, at most one ever runs.
RunsOnce == \A m, n \in DOMAIN ops : ops[m].state # "new" /\ ops[n].state # "new" => m = n

\* A retry is answered with the operation of exactly what it asked for.
HandleIsTheRequested ==
    \A s \in Attempts : attempt[s].op # NoOp => SameKey(ops[attempt[s].op], s)

\* An attempt that holds a handle and waits.
Owed(s) == AttemptAt(s, "wait")

Startable(a) == adapter.installed /\ a \in adapter.qualified

\* A failed probe takes away the attachment it probed and no other.
RevokesOnlyItsAttachment ==
    [][\A p \in Probers, a \in Attachments :
           (~ProbeAt(p, "out") /\ ProbeAt(p, "out")' /\ a # prober[p].at /\ Startable(a)) => Startable(a)']_vars
=============================================================================
