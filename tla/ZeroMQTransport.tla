--------------------------- MODULE ZeroMQTransport ---------------------------
(***************************************************************************)
(* The ZeroMQ transport between Workers and a Local Dispatch: clients send *)
(* each request on a socket of its own and wait a bounded time, the server *)
(* keeps one WorkerDispatch per client and serves one request at a time.   *)
(* Requests and replies are delayed and lost (a lost request is one that   *)
(* is never served); the server stops, dies and restarts.  Custody is one  *)
(* task of LocalDispatch, reduced to its epoch, claimant and outcome.      *)
(***************************************************************************)
EXTENDS Integers, FiniteSets, Sequences, SequencesExt

CONSTANTS
    Clients,
    MaxProviders, \* _MAX_CLIENTS
    Permits,      \* max_in_flight_operations; 1 for the synchronous client
    MaxSends,     \* bound on the sockets of one behaviour
    MaxRestarts,  \* bound on the server's restarts
    None

VARIABLES
    custody,   \* the task: epoch, claimant of the epoch, outcome
    up,        \* serve_forever is serving
    draining,
    providers, \* client -> claimant of its provider, in order of insertion
    born,      \* claimants issued so far
    net,       \* requests under way to the server
    replies,   \* replies under way
    calls,     \* RPCs each client is in
    held,      \* attempts each client has been given
    closed,    \* _closed of the client
    acked,     \* outcomes a client was told are recorded
    refused,   \* custody as it was when a report was refused
    sends, claims, restarts

server == <<up, draining, providers, born>>
vars == <<custody, server, net, replies, calls, held, closed, acked, refused,
          sends, claims, restarts>>

Free == [epoch |-> 0, by |-> None, live |-> FALSE, out |-> None]

Init ==
    /\ custody = Free
    /\ up = TRUE /\ draining = FALSE /\ providers = <<>> /\ born = 0
    /\ net = {} /\ replies = {}
    /\ calls = [c \in Clients |-> {}]
    /\ held = [c \in Clients |-> {}]
    /\ closed = {} /\ acked = {} /\ refused = {}
    /\ sends = 0 /\ claims = 0 /\ restarts = 0

----------------------------------------------------------------------------
(* Clients. *)

\* Only the exact terminal report of complete is sent again by itself.
Redelivers(op) == op = "complete"

\* A request goes out on a socket of its own.
Sends(c, op, attempt) ==
    /\ sends < MaxSends /\ sends' = sends + 1
    /\ net' = net \cup {[c |-> c, op |-> op, attempt |-> attempt, socket |-> sends]}

Call(c, op, attempt) ==
    /\ c \notin closed /\ Cardinality(calls[c]) < Permits
    /\ \A r \in calls[c] : r.op # op
    /\ Sends(c, op, attempt)
    /\ calls' = [calls EXCEPT ![c] = @ \cup
                    {[op |-> op, attempt |-> attempt, socket |-> sends]}]
    /\ claims' = claims + (IF op = "claim" THEN 1 ELSE 0)
    /\ UNCHANGED <<custody, server, replies, held, closed, acked, refused, restarts>>

Claim(c) == Call(c, "claim", None)
Heartbeat(c) == \E a \in held[c] : Call(c, "heartbeat", a)
Complete(c) == \E a \in held[c] : Call(c, "complete", a)
Fail(c) == \E a \in held[c] : Call(c, "fail", a)

\* No reply in time, or the caller is cancelled.  complete is sent again
\* while its deadline lasts; any other call raises and leaves its outcome
\* uncertain.  The old socket is closed: its reply has no reader.
TimesOut(c, r) ==
    /\ r \in calls[c]
    /\ \/ /\ calls' = [calls EXCEPT ![c] = @ \ {r}]
          /\ UNCHANGED <<net, sends>>
       \/ /\ Redelivers(r.op) /\ Sends(c, r.op, r.attempt)
          /\ calls' = [calls EXCEPT ![c] = (@ \ {r}) \cup {[r EXCEPT !.socket = sends]}]
    /\ replies' = {p \in replies : p.socket # r.socket}
    /\ UNCHANGED <<custody, server, held, closed, acked, refused, claims, restarts>>

\* A reply is read from the socket its request went out on.
Reads(c, p, r) == p.c = c /\ p.socket = r.socket

\* The reply returns from the RPC: an attempt, an acknowledgement, a refusal.
Returns(c, p, r) ==
    /\ p \in replies /\ r \in calls[c] /\ Reads(c, p, r)
    /\ replies' = replies \ {p}
    /\ calls' = [calls EXCEPT ![c] = @ \ {r}]
    /\ held' = IF r.op = "claim" /\ p.value # None
               THEN [held EXCEPT ![c] = @ \cup {p.value}] ELSE held
    /\ acked' = IF r.op = "complete" /\ p.ok THEN acked \cup {r.attempt} ELSE acked
    /\ refused' = IF r.op = "complete" /\ ~p.ok
                  THEN refused \cup {p.value}
                  ELSE refused
    /\ UNCHANGED <<custody, server, net, closed, sends, claims, restarts>>

\* close refuses new calls and waits until every socket is closed.
Close(c) ==
    /\ c \notin closed /\ closed' = closed \cup {c}
    /\ UNCHANGED <<custody, server, net, replies, calls, held, acked, refused,
                   sends, claims, restarts>>

----------------------------------------------------------------------------
(* The server. *)

Cached(c) == {i \in DOMAIN providers : providers[i].c = c}

\* _provider: the client's own provider, or a new one; a full table loses the
\* provider it gained last, whose client gets a new claimant next time.
Admits(c) ==
    IF Cached(c) # {} THEN providers
    ELSE Append(IF Len(providers) >= MaxProviders THEN Front(providers) ELSE providers,
                [c |-> c, claimant |-> <<c, born>>])

ClaimantOf(c, table) == (CHOOSE i \in DOMAIN table : table[i].c = c)

\* The reply is lost on the way, or has no route any more.
Reply(m, ok, value) ==
    \/ /\ \E r \in calls[m.c] : r.socket = m.socket
       /\ replies' = replies \cup {[c |-> m.c, socket |-> m.socket, ok |-> ok, value |-> value]}
    \/ UNCHANGED replies

\* Mutant of Holds: the attempt must be of a provider that is still there.
HoldsByProvider(attempt) ==
    /\ custody.live /\ custody.epoch = attempt.epoch /\ custody.by = attempt.by
    /\ attempt.by \in {providers[i].claimant : i \in DOMAIN providers}

\* The lease of custody is the attempt's: LocalWorkerDispatch compares the
\* attempt's own claimant and epoch, not those of the provider that serves it.
Holds(attempt) ==
    /\ custody.live /\ custody.epoch = attempt.epoch /\ custody.by = attempt.by

ClaimsAnswer(m, table) ==
    IF draining \/ custody.live \/ custody.out # None
    THEN [custody |-> custody, ok |-> TRUE, value |-> None]
    ELSE LET who == table[ClaimantOf(m.c, table)].claimant IN
         [custody |-> [custody EXCEPT !.epoch = @ + 1, !.by = who, !.live = TRUE],
          ok |-> TRUE, value |-> [epoch |-> custody.epoch + 1, by |-> who]]

\* A report of the lease's holder ends the lease, complete for good; the
\* exact repetition of a recorded completion is acknowledged.
ReportAnswer(m) ==
    IF Holds(m.attempt)
    THEN [custody |-> [custody EXCEPT !.live = FALSE,
                         !.out = IF m.op = "complete" THEN m.attempt ELSE None],
          ok |-> TRUE, value |-> None]
    ELSE [custody |-> custody, ok |-> m.op = "complete" /\ custody.out = m.attempt,
          value |-> [custody |-> custody, attempt |-> m.attempt]]

Answer(m, table) ==
    CASE m.op = "claim" -> ClaimsAnswer(m, table)
      [] m.op = "heartbeat" -> [custody |-> custody, ok |-> Holds(m.attempt),
                                value |-> None]
      [] OTHER -> ReportAnswer(m)

\* One turn of _serve_requests.  A request that is not well formed, is too
\* large or asks for other queues is answered with an error and changes
\* nothing; here requests are well formed.
Serve(m) ==
    /\ up /\ m \in net
    /\ net' = net \ {m}
    /\ \E table \in {Admits(m.c)} : \E answer \in {Answer(m, table)} :
        /\ providers' = table
        /\ born' = IF table = providers THEN born ELSE born + 1
        /\ custody' = answer.custody
        /\ Reply(m, answer.ok, answer.value)
    /\ UNCHANGED <<up, draining, calls, held, closed, acked, refused, sends,
                   claims, restarts>>

RequestDrain ==
    /\ up /\ ~draining /\ draining' = TRUE
    /\ UNCHANGED <<custody, up, providers, born, net, replies, calls, held, closed,
                   acked, refused, sends, claims, restarts>>

\* stop, the drain deadline, an error or the death of the process: every
\* provider is closed with it, custody is not.
Stops ==
    /\ up /\ restarts < MaxRestarts /\ restarts' = restarts + 1
    /\ up' = FALSE /\ draining' = FALSE /\ providers' = <<>>
    /\ UNCHANGED <<custody, born, net, replies, calls, held, closed, acked, refused,
                   sends, claims>>

\* The endpoint lock admits one server at a time.
Starts ==
    /\ ~up /\ up' = TRUE
    /\ UNCHANGED <<custody, draining, providers, born, net, replies, calls, held,
                   closed, acked, refused, sends, claims, restarts>>

\* The lease ends; LocalDispatch gives the task to the next claim.
LeaseEnds ==
    /\ custody.live /\ custody' = [custody EXCEPT !.live = FALSE]
    /\ UNCHANGED <<server, net, replies, calls, held, closed, acked, refused, sends,
                   claims, restarts>>

Next ==
    \/ \E c \in Clients :
        \/ Claim(c) \/ Heartbeat(c) \/ Complete(c) \/ Fail(c) \/ Close(c)
        \/ \E r \in calls[c] : TimesOut(c, r) \/ \E p \in replies : Returns(c, p, r)
    \/ \E m \in net : Serve(m)
    \/ RequestDrain \/ Stops \/ Starts \/ LeaseEnds

Spec == Init /\ [][Next]_vars

\* Every wait of an RPC is bounded by its request timeout.
SocketTimesOut(c) ==
    \E r \in calls[c] : TimesOut(c, r) /\ Cardinality(calls'[c]) < Cardinality(calls[c])

FairSpec == Spec /\ \A c \in Clients : WF_vars(SocketTimesOut(c))

----------------------------------------------------------------------------
\* A completion a client was told of is the recorded one, although requests
\* are repeated and replies of earlier sockets arrive late.
AcknowledgedIsRecorded == \A a \in acked : custody.out = a

\* A claim is applied at most once per call: a lost reply loses the attempt
\* to its lease and is never replayed blindly.
ClaimsAreNotReplayed == custody.epoch <= claims

\* A report is refused only when its lease is really over: losing the
\* provider that claimed the attempt, by eviction or restart, is no reason.
NoFalseRefusal ==
    \A r \in refused :
        ~(/\ r.custody.live
          /\ r.custody.epoch = r.attempt.epoch /\ r.custody.by = r.attempt.by)

\* An attempt is given to one client only, the one that claimed it.
AttemptHasOneClient ==
    \A c, d \in Clients : c # d => held[c] \cap held[d] = {}

\* The table of providers is bounded and has one provider per client.
ProvidersAreBounded ==
    /\ Len(providers) <= MaxProviders
    /\ \A i, j \in DOMAIN providers : providers[i].c = providers[j].c => i = j

\* A completed task is never claimed or completed again.
CompletionKept ==
    custody.out # None => custody' = custody

\* A closed client with a socket left.
Owed(c) == c \in closed /\ calls[c] # {}
=============================================================================
