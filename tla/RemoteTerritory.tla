-------------------------- MODULE RemoteTerritory --------------------------
(***************************************************************************)
(* The Docker and E2B execution territory providers                        *)
(* (petrus/motus/_execution/providers.py, DockerEnvironment and            *)
(* E2bEnvironment).                                                        *)
(*                                                                         *)
(* Neither holds a lock: every method is a sequence of calls to the Docker *)
(* daemon or the E2B service with the threads of the host between them,    *)
(* and every call may fail.  Machines (containers or sandboxes) carry the  *)
(* operation id as a label and outlive the host process.  The two          *)
(* providers differ in what they do when the lookup after a create fails   *)
(* and in which lookup errors destroy and cancel expect.                   *)
(***************************************************************************)
EXTENDS Integers, FiniteSets

CONSTANTS
    Threads,
    Provider,     \* "docker" or "e2b"
    Specs,        \* environment specs asked for under the one operation id
    Operations,   \* methods the host's threads call
    MaxMachines,
    MaxFailures,  \* calls that fail
    MaxCrashes    \* host process deaths

VARIABLES
    machine,   \* [machines -> state and spec label]
    active,    \* [machines -> set of threads registered as its command] (_processes, _commands)
    job,       \* [Threads -> method in progress]
    granted,   \* machines some create returned
    verified,  \* machines some destroy reported verified
    failures, crashes

vars == <<machine, active, job, granted, verified, failures, crashes>>

Machines == 1 .. MaxMachines
NoMachine == [state |-> "unborn", spec |-> "none"]
NoJob == [op |-> "none", pc |-> "idle", m |-> 0, spec |-> "none"]

Init ==
    /\ machine = [m \in Machines |-> NoMachine]
    /\ active = [m \in Machines |-> {}]
    /\ job = [t \in Threads |-> NoJob]
    /\ granted = {} /\ verified = {}
    /\ failures = 0 /\ crashes = 0

Idle(t) == job[t].op = "none"
At(t, op, pc) == job[t].op = op /\ job[t].pc = pc
End(t) == job' = [job EXCEPT ![t] = NoJob]
Goto(t, pc) == job' = [job EXCEPT ![t].pc = pc]

\* What the daemon lists under the operation's label.
Listed == {m \in Machines : machine[m].state \in {"ready", "terminal"}}

\* lookup: nothing, one machine, or an error when there are several.
Nothing == Listed = {}
Several == Cardinality(Listed) > 1
Only(m) == Listed = {m}
Current(m) == Only(m) /\ machine[m].state = "ready"

\* The jobs once the commands of the threads T in machine m are stopped.
Stopped(m, T) == [t \in Threads |-> IF t \in T /\ At(t, "execute", "running") /\ job[t].m = m
                                    THEN [job[t] EXCEPT !.pc = "exited"] ELSE job[t]]

\* A call to the daemon or the service fails.
CallFails ==
    /\ failures < MaxFailures
    /\ failures' = failures + 1

-----------------------------------------------------------------------------
(* create                                                                  *)

\* The first lookup: an existing machine with this spec is returned if ready;
\* anything else that exists, or an error, raises.
CreateLookup(t, s) ==
    /\ Idle(t) /\ "create" \in Operations
    /\ \/ /\ Nothing
          /\ job' = [job EXCEPT ![t] = [op |-> "create", pc |-> "run", m |-> 0, spec |-> s]]
          /\ UNCHANGED granted
       \/ /\ \E m \in Machines : Current(m) /\ machine[m].spec = s /\ granted' = granted \cup {m}
          /\ UNCHANGED job
    /\ UNCHANGED <<machine, active, verified, failures, crashes>>

\* docker run, Sandbox.create: it may also raise before or after it took effect.
CreateRun(t) ==
    /\ At(t, "create", "run")
    /\ \E m \in Machines :
          /\ machine[m].state = "unborn" /\ \A n \in Machines : n < m => machine[n].state # "unborn"
          /\ machine' = [machine EXCEPT ![m] = [state |-> "ready", spec |-> job[t].spec]]
          /\ job' = [job EXCEPT ![t].pc = "confirm", ![t].m = m]
    /\ UNCHANGED <<active, granted, verified, failures, crashes>>

CreateRunFails(t) ==
    /\ At(t, "create", "run") /\ CallFails /\ End(t)
    /\ UNCHANGED <<machine, active, granted, verified, crashes>>

\* E2B kills its own sandbox when the lookup raises, if it can; Docker does not.
AfterLookupError(m) ==
    IF Provider = "e2b"
    THEN {[machine EXCEPT ![m].state = "removed"]} \cup (IF failures < MaxFailures THEN {machine} ELSE {})
    ELSE {machine}

\* The second lookup.
CreateConfirm(t) ==
    LET m == job[t].m IN
    /\ At(t, "create", "confirm")
    /\ \/ /\ Cardinality(Listed) = 1
          /\ granted' = granted \cup Listed
          /\ UNCHANGED <<machine, failures>>
       \/ /\ Nothing
          /\ machine' = [machine EXCEPT ![m].state = "removed"]
          /\ UNCHANGED <<granted, failures>>
       \/ /\ Several \/ failures < MaxFailures
          /\ machine' \in AfterLookupError(m)
          /\ failures' = IF ~Several \/ (Provider = "e2b" /\ machine' = machine) THEN failures + 1 ELSE failures
          /\ UNCHANGED granted
    /\ End(t)
    /\ UNCHANGED <<active, verified, crashes>>

-----------------------------------------------------------------------------
(* destroy, cancel                                                         *)

\* The lookup before a destroy: it answers at once unless it finds the lease.
DestroyLookup(t, m) ==
    /\ Idle(t) /\ "destroy" \in Operations /\ m \in granted
    /\ \/ Nothing /\ verified' = verified \cup {m} /\ UNCHANGED job
       \/ /\ Only(m)
          /\ job' = [job EXCEPT ![t] = [op |-> "destroy", pc |-> "remove", m |-> m, spec |-> "none"]]
          /\ UNCHANGED verified
    /\ UNCHANGED <<machine, active, granted, failures, crashes>>

\* docker rm --force, whose failure is not looked at; sandbox.kill, whose failure is.
DestroyRemove(t) ==
    LET m == job[t].m IN
    /\ At(t, "destroy", "remove")
    /\ \/ /\ machine' = [machine EXCEPT ![m].state = "removed"]
          /\ job' = [Stopped(m, Threads) EXCEPT ![t].pc = "verify"]
          /\ UNCHANGED failures
       \/ /\ CallFails
          /\ UNCHANGED machine
          /\ IF Provider = "docker" THEN Goto(t, "verify") ELSE End(t)
    /\ UNCHANGED <<active, granted, verified, crashes>>

\* The lookup after the removal.
DestroyVerify(t) ==
    /\ At(t, "destroy", "verify")
    /\ verified' \in {verified} \cup (IF Nothing THEN {verified \cup {job[t].m}} ELSE {})
    /\ End(t)
    /\ UNCHANGED <<machine, active, granted, failures, crashes>>

\* cancel: docker kill stops the machine, E2B only the command.
CancelLease(m) ==
    /\ "cancel" \in Operations /\ m \in granted /\ Only(m)
    /\ \/ /\ Provider = "docker"
          /\ machine' = [machine EXCEPT ![m].state = "terminal"]
          /\ job' = Stopped(m, Threads)
       \/ /\ Provider = "e2b"
          /\ job' = Stopped(m, active[m])
          /\ UNCHANGED machine
    /\ UNCHANGED <<active, granted, verified, failures, crashes>>

-----------------------------------------------------------------------------
(* attach and execute                                                      *)

\* attach, execute: lookup and the check for an active command.
Begin(t, op, m) ==
    /\ Idle(t) /\ op \in Operations /\ m \in granted
    /\ Current(m) /\ active[m] = {}
    /\ job' = [job EXCEPT ![t] = [op |-> op, pc |-> "start", m |-> m, spec |-> "none"]]
    /\ UNCHANGED <<machine, active, granted, verified, failures, crashes>>

\* The archive is unpacked in the machine, or the call fails.
AttachUnpack(t) ==
    /\ At(t, "attach", "start") /\ End(t)
    /\ UNCHANGED <<machine, active, granted, verified, failures, crashes>>

\* The command is started in the machine and registered; a machine that is gone
\* or a caller that is no longer current ends it instead.
ExecuteStart(t) ==
    LET m == job[t].m IN
    /\ At(t, "execute", "start")
    /\ \/ /\ machine[m].state = "ready"
          /\ active' = [active EXCEPT ![m] = {t}]
          /\ Goto(t, "running")
       \/ End(t) /\ UNCHANGED active
    /\ UNCHANGED <<machine, granted, verified, failures, crashes>>

\* The command ends by itself, or its timeout, supersession or overflow stops
\* the container (Docker) or the command (E2B).
ExecuteEnd(t) ==
    LET m == job[t].m IN
    /\ At(t, "execute", "running")
    /\ machine' \in {machine} \cup (IF Provider = "docker" /\ machine[m].state = "ready"
                                   THEN {[machine EXCEPT ![m].state = "terminal"]} ELSE {})
    /\ Goto(t, "exited")
    /\ UNCHANGED <<active, granted, verified, failures, crashes>>

ExecuteForget(t) ==
    /\ At(t, "execute", "exited")
    /\ active' = [active EXCEPT ![job[t].m] = {}]
    /\ End(t)
    /\ UNCHANGED <<machine, granted, verified, failures, crashes>>

-----------------------------------------------------------------------------

\* The host process dies; machines and what runs in them stay.
Crash ==
    /\ crashes < MaxCrashes
    /\ crashes' = crashes + 1
    /\ job' = [t \in Threads |-> NoJob]
    /\ active' = [m \in Machines |-> {}]
    /\ UNCHANGED <<machine, granted, verified, failures>>

Next ==
    \/ \E t \in Threads :
          \/ \E s \in Specs : CreateLookup(t, s)
          \/ CreateRun(t) \/ CreateRunFails(t) \/ CreateConfirm(t)
          \/ \E m \in Machines : DestroyLookup(t, m) \/ \E op \in {"attach", "execute"} : Begin(t, op, m)
          \/ DestroyRemove(t) \/ DestroyVerify(t)
          \/ AttachUnpack(t) \/ ExecuteStart(t) \/ ExecuteEnd(t) \/ ExecuteForget(t)
    \/ \E m \in Machines : CancelLease(m)
    \/ Crash

Spec == Init /\ [][Next]_vars

-----------------------------------------------------------------------------
(* Properties                                                              *)

Live(m) == machine[m].state \in {"ready", "terminal"}
Quiet == \A t \in Threads : job[t].op # "create"

\* Once no create is in progress, an operation id names at most one machine, so
\* that lookup, reconcile and destroy can find it.
OneMachinePerOperation == Quiet => Cardinality({m \in Machines : Live(m)}) <= 1

\* A destroy reported verified is of a machine that is gone for good.
VerifiedIsGone == \A m \in verified : ~Live(m)

\* A territory has at most one active command.
OneActiveCommand ==
    \A t, u \in Threads :
        /\ At(t, "execute", "running") /\ At(u, "execute", "running")
        /\ job[t].m = job[u].m
        => t = u

=============================================================================
