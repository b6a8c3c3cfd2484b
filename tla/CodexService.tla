---------------------------- MODULE CodexService ----------------------------
(***************************************************************************)
(* The host-local runtime service of the Codex Gondolin lane and its       *)
(* Worker-side client (petrus/agenticus/runtime/_codex_gondolin_service.py:*)
(* _CodexGondolinRuntimeService, _CodexGondolinActivityClient).            *)
(*                                                                         *)
(* A process takes the file lock of the state directory, opens the ledger, *)
(* binds the endpoint and serves requests one by one: admit under the      *)
(* request's fingerprint, run the operation, store its terminal, reply.    *)
(* Processes crash anywhere, a replacement takes over the ledger, and      *)
(* Worker attempts with one operation identity come, wait and give up.     *)
(***************************************************************************)
EXTENDS Integers, Sequences, FiniteSets

CONSTANTS
    Procs,       \* host processes
    Clients,     \* Worker attempts
    Request,     \* [Clients -> [op, fp]]: operation and request fingerprint
    MaxCrashes,
    Faults

VARIABLES
    ledger,    \* the database file: "absent", "created", "table" or "ready"
    rows,      \* the operations table
    lock,      \* holder of .service.lock
    endpoint,  \* process whose socket the path names
    svc,       \* [Procs -> the service object of that process]
    client,    \* [Clients -> where the attempt stands, and its answer]
    started,   \* [operations -> how often the runtime was started]
    crashes

vars == <<ledger, rows, lock, endpoint, svc, client, started, crashes>>

Operations == {Request[c].op : c \in Clients}
NoValue == "none"
Failure(code) == [ok |-> FALSE, code |-> code, run |-> 0]
Nothing == Failure(NoValue)
NoRow == [phase |-> NoValue, fp |-> NoValue, terminal |-> Nothing]
Idle == [at |-> NoValue, client |-> NoValue, terminal |-> Nothing]
Off == [state |-> "off", created |-> FALSE, queue |-> << >>, job |-> Idle]

\* A result is told from another by the run of the operation it comes from.
Result(op) == [ok |-> TRUE, code |-> NoValue, run |-> started[op]]

May(fault) == fault \in Faults

Init ==
    /\ ledger = "absent"
    /\ rows = [o \in Operations |-> NoRow]
    /\ lock = NoValue /\ endpoint = NoValue
    /\ svc = [p \in Procs |-> Off]
    /\ client = [c \in Clients |-> [at |-> "idle", answer |-> Nothing]]
    /\ started = [o \in Operations |-> 0]
    /\ crashes = 0

\* A client whose connection is reset reports the service unavailable.
Reset(cs) == client' = [c \in Clients |-> IF c \in cs /\ client[c].at = "waiting"
                                          THEN [at |-> "unavailable", answer |-> Nothing] ELSE client[c]]

Waiting(p) == {svc[p].queue[i] : i \in DOMAIN svc[p].queue}
Handling(p) == IF svc[p].job.at = NoValue THEN {} ELSE {svc[p].job.client}

--------------------------------------------------------------------------
(* Taking over: _acquire_fence, _initialize_ledger, start                  *)

\* flock without waiting: while somebody holds it the constructor raises.
AcquireFence(p) ==
    /\ svc[p].state = "off" /\ lock = NoValue
    /\ lock' = p
    /\ svc' = [svc EXCEPT ![p].state = "create"]
    /\ UNCHANGED <<ledger, rows, endpoint, client, started, crashes>>

\* O_CREAT | O_EXCL: only the process that made the file makes the table.
CreateLedger(p) ==
    /\ svc[p].state = "create"
    /\ ledger' = IF ledger = "absent" THEN "created" ELSE ledger
    /\ svc' = [svc EXCEPT ![p].state = "schema", ![p].created = (ledger = "absent")]
    /\ UNCHANGED <<rows, lock, endpoint, client, started, crashes>>

\* The table and its version are two statements, each committed on its own.
CreateSchema(p) ==
    /\ svc[p].state = "schema" /\ svc[p].created /\ ledger # "ready"
    /\ ledger' = IF ledger = "created" THEN "table" ELSE "ready"
    /\ UNCHANGED <<rows, lock, endpoint, svc, client, started, crashes>>

\* _validate_ledger; then what a lost process left executing is settled as
\* indeterminate.  A ledger that does not validate ends the constructor.
ValidateLedger(p) ==
    /\ svc[p].state = "schema" /\ (svc[p].created => ledger = "ready")
    /\ IF ledger = "ready"
       THEN /\ rows' = [o \in Operations |->
                           IF rows[o].phase = "executing"
                           THEN [rows[o] EXCEPT !.phase = "terminal", !.terminal = Failure("operation-indeterminate")]
                           ELSE rows[o]]
            /\ svc' = [svc EXCEPT ![p].state = "open"]
            /\ UNCHANGED lock
       ELSE svc' = [svc EXCEPT ![p] = Off] /\ lock' = NoValue /\ UNCHANGED rows
    /\ UNCHANGED <<ledger, endpoint, client, started, crashes>>

\* start: a stale socket is unlinked, the new one bound.
Start(p) ==
    /\ svc[p].state = "open"
    /\ endpoint' = p
    /\ svc' = [svc EXCEPT ![p].state = "serving"]
    /\ UNCHANGED <<ledger, rows, lock, client, started, crashes>>

--------------------------------------------------------------------------
(* Serving: _serve, _handle, _request                                      *)

Job(p, at) == svc[p].job.at = at
Of(p) == Request[svc[p].job.client]
Step(p, at, terminal) == svc' = [svc EXCEPT ![p].job.at = at, ![p].job.terminal = terminal]

Accept(p) ==
    /\ svc[p].state = "serving" /\ Job(p, NoValue) /\ svc[p].queue # << >>
    /\ svc' = [svc EXCEPT ![p].job = [at |-> "admit", client |-> Head(svc[p].queue), terminal |-> Nothing],
                          ![p].queue = Tail(@)]
    /\ UNCHANGED <<ledger, rows, lock, endpoint, client, started, crashes>>

\* _runtime_invocation: a request for another episode, attachment epoch or
\* connection version than the borrowed ones is refused before the ledger.
Refuse(p) ==
    /\ Job(p, "admit") /\ May("invalid")
    /\ Step(p, "reply", Failure("request-invalid"))
    /\ UNCHANGED <<ledger, rows, lock, endpoint, client, started, crashes>>

\* One transaction: a known operation is answered from its row, a new one is
\* recorded as executing before the runtime hears of it.
Admit(p) ==
    /\ Job(p, "admit")
    /\ LET row == rows[Of(p).op]
           insert == rows' = [rows EXCEPT ![Of(p).op] = [phase |-> "executing", fp |-> Of(p).fp, terminal |-> Nothing]]
       IN  \/ /\ row.phase # NoValue
              /\ Step(p, "reply", IF row.fp # Of(p).fp THEN Failure("operation-conflict")
                                  ELSE IF row.phase = "terminal" THEN row.terminal
                                  ELSE Failure("operation-indeterminate"))
              /\ UNCHANGED rows
           \/ row.phase = NoValue /\ insert /\ Step(p, "execute", Nothing)
           \/ /\ May("storage") /\ Step(p, "reply", Failure("runtime-failed"))
              /\ UNCHANGED rows \/ (row.phase = NoValue /\ insert)
    /\ UNCHANGED <<ledger, lock, endpoint, client, started, crashes>>

\* _execute: start, wait and close of the runtime operation.
ExecuteStart(p) ==
    /\ Job(p, "execute")
    /\ started' = [started EXCEPT ![Of(p).op] = @ + 1]
    /\ Step(p, "running", Nothing)
    /\ UNCHANGED <<ledger, rows, lock, endpoint, client, crashes>>

ExecuteEnd(p) ==
    /\ Job(p, "running")
    /\ Step(p, "store", Result(Of(p).op)) \/ (May("runtime") /\ Step(p, "store", Failure("runtime-failed")))
    /\ UNCHANGED <<ledger, rows, lock, endpoint, client, started, crashes>>

\* The terminal is stored before anybody hears of it.
Store(p) ==
    /\ Job(p, "store")
    /\ LET terminal == svc[p].job.terminal
           update == rows' = [rows EXCEPT ![Of(p).op].phase = "terminal", ![Of(p).op].terminal = terminal]
       IN  \/ update /\ Step(p, "reply", terminal)
           \/ May("storage") /\ (update \/ UNCHANGED rows) /\ Step(p, "reply", Failure("runtime-failed"))
    /\ UNCHANGED <<ledger, lock, endpoint, client, started, crashes>>

\* A client that has left costs an OSError and nothing else.
Reply(p) ==
    /\ Job(p, "reply")
    /\ LET c == svc[p].job.client
       IN  client' = IF client[c].at = "waiting"
                     THEN [client EXCEPT ![c] = [at |-> "answered", answer |-> svc[p].job.terminal]] ELSE client
    /\ svc' = [svc EXCEPT ![p].job = Idle]
    /\ UNCHANGED <<ledger, rows, lock, endpoint, started, crashes>>

--------------------------------------------------------------------------
(* close, in its four steps, and the death of a process                    *)

CloseSocket(p) ==
    /\ svc[p].state \in {"open", "serving"}
    /\ svc' = [svc EXCEPT ![p].state = "closing", ![p].queue = << >>]
    /\ Reset(Waiting(p))
    /\ UNCHANGED <<ledger, rows, lock, endpoint, started, crashes>>

\* The join times out while a request is handled: close raises, and the
\* fence stays until a later close.
CloseJoin(p) ==
    /\ svc[p].state = "closing" /\ Job(p, NoValue)
    /\ svc' = [svc EXCEPT ![p].state = "unlink"]
    /\ UNCHANGED <<ledger, rows, lock, endpoint, client, started, crashes>>

CloseUnlink(p) ==
    /\ svc[p].state = "unlink"
    /\ endpoint' = NoValue
    /\ svc' = [svc EXCEPT ![p].state = "release"]
    /\ UNCHANGED <<ledger, rows, lock, client, started, crashes>>

ReleaseFence(p) ==
    /\ svc[p].state = "release"
    /\ lock' = IF lock = p THEN NoValue ELSE lock
    /\ svc' = [svc EXCEPT ![p] = [Off EXCEPT !.job = svc[p].job]]
    /\ UNCHANGED <<ledger, rows, endpoint, client, started, crashes>>

\* The kernel drops the lock and the connections; file and socket path stay.
Crash(p) ==
    /\ svc[p].state # "off" /\ crashes < MaxCrashes
    /\ svc' = [svc EXCEPT ![p] = Off]
    /\ lock' = IF lock = p THEN NoValue ELSE lock
    /\ Reset(Waiting(p) \cup Handling(p))
    /\ crashes' = crashes + 1
    /\ UNCHANGED <<ledger, rows, endpoint, started>>

--------------------------------------------------------------------------
(* _CodexGondolinActivityClient                                            *)

Connect(c) ==
    /\ client[c].at = "idle"
    /\ LET up == {p \in Procs : endpoint = p /\ svc[p].state = "serving"}
       IN  \/ \E p \in up :
                 /\ svc' = [svc EXCEPT ![p].queue = Append(@, c)]
                 /\ client' = [client EXCEPT ![c].at = "waiting"]
           \/ up = {} /\ client' = [client EXCEPT ![c].at = "unavailable"] /\ UNCHANGED svc
    /\ UNCHANGED <<ledger, rows, lock, endpoint, started, crashes>>

\* The heartbeat between two reads fails: the attempt leaves.
Stale(c) ==
    /\ client[c].at = "waiting" /\ May("stale")
    /\ client' = [client EXCEPT ![c].at = "stale"]
    /\ UNCHANGED <<ledger, rows, lock, endpoint, svc, started, crashes>>

Opening(p) == AcquireFence(p) \/ CreateLedger(p) \/ CreateSchema(p) \/ ValidateLedger(p) \/ Start(p)
Serving(p) == Accept(p) \/ Refuse(p) \/ Admit(p) \/ ExecuteStart(p) \/ ExecuteEnd(p) \/ Store(p) \/ Reply(p)
Closing(p) == CloseSocket(p) \/ CloseJoin(p) \/ CloseUnlink(p) \/ ReleaseFence(p)

Next ==
    \/ \E p \in Procs : Opening(p) \/ Serving(p) \/ Closing(p) \/ Crash(p)
    \/ \E c \in Clients : Connect(c) \/ Stale(c)

Spec == Init /\ [][Next]_vars

\* The serving thread runs, and an operation the runtime started ends (the
\* operation's own deadline); nobody has to start a service or a Worker.
FairSpec == Spec /\ \A p \in Procs : WF_vars(Serving(p))

--------------------------------------------------------------------------
(* Properties                                                              *)

\* "Runtime start count remains exactly one": no retry, crash, takeover or
\* storage failure starts the work of one operation identity twice.
RuntimeStartsOnce == \A o \in Operations : started[o] <= 1

\* A Worker that was given a result has the stored terminal of its own
\* request, the one every later attempt will be given.
AnswerIsTheStoredTerminal ==
    \A c \in Clients :
        client[c].at = "answered" /\ client[c].answer.ok =>
            LET row == rows[Request[c].op]
            IN  row.phase = "terminal" /\ row.fp = Request[c].fp /\ row.terminal = client[c].answer

\* A stored terminal never changes, also not to indeterminate.
TerminalKept ==
    \A o \in Operations : rows[o].phase = "terminal" => rows'[o] = rows[o]

\* Whoever handles a request, or owns the endpoint while alive, holds the
\* fence: close never lets go of it over a running operation, and a
\* replacement's endpoint is not removed by its predecessor.
FenceCoversService ==
    \A p \in Procs :
        /\ svc[p].job.at # NoValue => lock = p
        /\ svc[p].state = "serving" => lock = p /\ endpoint = p

\* An attempt that connected and is neither answered, refused, reset nor stale.
Owed(c) == client[c].at = "waiting"
=============================================================================
