------------------------- MODULE ConnectionCustody -------------------------
(***************************************************************************)
(* Agent Connection custody: sealed provider state, leases that            *)
(* materialize it as plaintext files on enrolled hosts, and the fencing of *)
(* writers whose authority has moved on.                                   *)
(*                                                                         *)
(* Every operation is published by _commit, which reloads the snapshot,    *)
(* transforms it and swaps it in only if the revision is unchanged: one    *)
(* action.  What an operation read, sealed or captured before that, and    *)
(* the files and keys it touches after it, are steps of their own, in      *)
(* which other processes move.  A commit that loses its bounded retries    *)
(* raises; the call then ends as a crashed one does.                       *)
(*                                                                         *)
(* The provider is external: each authorization is a grant, and refreshing *)
(* it replaces the state the provider will accept next.                    *)
(***************************************************************************)
EXTENDS Integers, Sequences, FiniteSets

CONSTANTS
    Connections, Hosts, Callers,
    LeaseIds,       \* the operation identities of materialize
    Erasers,        \* callers that may be inside erase at the same time
    MaxGrants,      \* bound on authorizations and rotations
    MaxRefreshes,   \* bound on the refreshes of one grant
    MaxEnrolments,  \* bound on enrolment epochs
    MaxEpoch,       \* bound on authority epochs
    MaxTime,        \* bound on the clock
    None

VARIABLES
    hosts, conns, leases,   \* the StorageSnapshot
    files,      \* the plaintext of each attachment
    keyed,      \* connections whose decrypting key exists
    held,       \* materializations a live runtime process has in hand
    calls,      \* the call each process is in, between two of its steps
    now,
    grants,     \* the state the provider accepts next, of each grant
    granted,    \* the grant of each connection's current authority
    contexts    \* key contexts of the ciphertexts published so far

store == <<hosts, conns, leases>>
provider == <<grants, granted>>
vars == <<hosts, conns, leases, files, keyed, held, calls, now, grants,
          granted, contexts>>

Idle == [op |-> "idle"]
NoLease == [conn |-> None, released |-> TRUE]
NoConn == [status |-> "absent", epoch |-> 0, version |-> 0, sealed |-> None]

Init ==
    /\ hosts = [h \in Hosts |-> [epoch |-> 0, active |-> FALSE]]
    /\ conns = [c \in Connections |-> NoConn]
    /\ leases = [l \in LeaseIds |-> NoLease]
    /\ files = [l \in LeaseIds |-> None]
    /\ keyed = {} /\ held = {}
    /\ calls = [p \in Callers |-> Idle]
    /\ now = 0
    /\ grants = <<>>
    /\ granted = [c \in Connections |-> 0]
    /\ contexts = {}

-----------------------------------------------------------------------------
(* Operators on a snapshot.                                                *)

\* A lease that has not been released, whether or not it has expired.
Unsettled(l) == ~leases[l].released
Expired == {l \in LeaseIds : Unsettled(l) /\ leases[l].expires <= now}

UnsettledOf(c) == {l \in LeaseIds : Unsettled(l) /\ leases[l].conn = c}
ActiveAt(l, time) == Unsettled(l) /\ leases[l].expires > time

ReleaseLeases(selected) ==
    [l \in LeaseIds |-> IF l \in selected THEN [leases[l] EXCEPT !.released = TRUE]
                        ELSE leases[l]]

\* _settle_released_refreshes: custody that was activated is ambiguous, the
\* provider may have moved on, so the state is dropped.
Settle(selected) ==
    [c \in Connections |->
        LET of == {l \in selected : leases[l].conn = c} IN
        IF conns[c].status # "refreshing" \/ \A l \in of : leases[l].mode # "refresh"
        THEN conns[c]
        ELSE IF \E l \in of : leases[l].activated
        THEN [conns[c] EXCEPT !.status = "reauthorization_required",
                              !.epoch = @ + 1, !.sealed = None]
        ELSE [conns[c] EXCEPT !.status = "ready"]]

\* Files of attachments are overwritten and unlinked.
Without(selected) ==
    [l \in LeaseIds |-> IF l \in selected THEN None ELSE files[l]]

\* _require_current_lease: the lease is the store's, unreleased, unexpired,
\* and of the host's current enrolment.
Current(l) ==
    /\ Unsettled(l) /\ leases[l].expires > now
    /\ hosts[leases[l].host].active
    /\ hosts[leases[l].host].epoch = leases[l].hostEpoch

\* The lease epochs an unreleased lease may have, and the lease sets a
\* connection may have: what validate_snapshot refuses to load or publish.
LiveLeaseAuthority(l) ==
    /\ hosts[leases[l].host].active
    /\ hosts[leases[l].host].epoch = leases[l].hostEpoch
    /\ conns[leases[l].conn].epoch = leases[l].epoch
    /\ conns[leases[l].conn].version = leases[l].base

ActiveLeaseSet(c) ==
    LET active == UnsettledOf(c)
        refresh == {l \in active : leases[l].mode = "refresh"}
    IN  /\ refresh # {} => Cardinality(active) = 1
        /\ (refresh # {}) = (conns[c].status = "refreshing")
        /\ active # {} => conns[c].status \in {"ready", "refreshing"}

Ciphertext(c) ==
    conns[c].sealed = None =>
        conns[c].status \in {"absent", "reauthorization_required", "revoked",
                             "erasure_pending"}

-----------------------------------------------------------------------------
(* Hosts.                                                                  *)

OfHost(h) == {l \in LeaseIds : Unsettled(l) /\ leases[l].host = h}

\* enroll_host and remove_host: every lease of the old enrolment is released
\* with the expired ones, refreshes are settled, plaintext is cleaned.
Reenrol(h, active) ==
    LET gone == Expired \cup OfHost(h) IN
    /\ hosts[h].epoch < MaxEnrolments
    /\ hosts' = [hosts EXCEPT ![h] = [epoch |-> @.epoch + 1, active |-> active]]
    /\ leases' = ReleaseLeases(gone)
    /\ conns' = Settle(gone)
    /\ files' = Without(gone)
    /\ UNCHANGED <<keyed, held, calls, now, provider, contexts>>

EnrollHost(h) == Reenrol(h, TRUE)
RemoveHost(h) == hosts[h].active /\ Reenrol(h, FALSE)

-----------------------------------------------------------------------------
(* Authority: authorize, rotate, revoke, erase.                            *)

Enter(p, call) == calls[p] = Idle /\ calls' = [calls EXCEPT ![p] = call]
Leave(p) == calls' = [calls EXCEPT ![p] = Idle]


\* The epoch and version a replaced authority is sealed for.
SealedAs(c) == [epoch |-> conns[c].epoch + 1, version |-> conns[c].version + 1]

Replaceable(c, op) ==
    CASE op = "authorize" -> conns[c].status \in {"absent", "reauthorization_required"}
      [] op = "rotate" -> conns[c].status \in {"ready", "refreshing"}

\* What authorize and rotate read and seal; the opaque state is a new grant.
ReadAuthority(p, c, op) ==
    /\ Replaceable(c, op)
    /\ Len(grants) < MaxGrants /\ conns[c].epoch < MaxEpoch
    /\ grants' = Append(grants, 0)
    /\ keyed' = keyed \cup {c}
    /\ Enter(p, [op |-> op, c |-> c, seen |-> conns[c], as |-> SealedAs(c),
                 grant |-> Len(grants) + 1])
    /\ UNCHANGED <<store, files, held, now, granted, contexts>>

SameGeneration(p) == conns[calls[p].c] = calls[p].seen

\* The publication; leases of the replaced authority are released.
PublishAuthority(p) ==
    /\ calls[p].op \in {"authorize", "rotate"}
    /\ SameGeneration(p)
    /\ LET c == calls[p].c  gone == UnsettledOf(c) IN
       /\ conns' = [conns EXCEPT ![c] =
             [status |-> "ready", epoch |-> calls[p].as.epoch,
              version |-> calls[p].as.version,
              sealed |-> [grant |-> calls[p].grant, state |-> 0]]]
       /\ leases' = ReleaseLeases(gone)
       /\ files' = Without(gone)
       /\ granted' = [granted EXCEPT ![c] = calls[p].grant]
       /\ contexts' = contexts \cup {<<c, calls[p].as.epoch, calls[p].as.version>>}
    /\ Leave(p)
    /\ UNCHANGED <<hosts, keyed, held, now, grants>>

Revoked(c) == UnsettledOf(c)

Revoke(c) ==
    /\ conns[c].status \in {"ready", "refreshing", "reauthorization_required"}
    /\ conns[c].epoch < MaxEpoch
    /\ conns' = [conns EXCEPT ![c].status = "revoked", ![c].epoch = @ + 1]
    /\ leases' = ReleaseLeases(Revoked(c))
    /\ files' = Without(Revoked(c))
    /\ UNCHANGED <<hosts, keyed, held, calls, now, provider, contexts>>

\* erase: publish the intent, erase the key, publish the erasure.
ErasePrepares(p, c) ==
    /\ conns[c].status \in {"revoked", "erasure_pending"}
    /\ Cardinality({q \in Callers : calls[q].op \in {"erase", "erased"}}) < Erasers
    /\ conns' = [conns EXCEPT ![c].status = "erasure_pending"]
    /\ Enter(p, [op |-> "erase", c |-> c])
    /\ UNCHANGED <<hosts, leases, files, keyed, held, now, provider, contexts>>

EraseKey(p) ==
    /\ calls[p].op = "erase"
    /\ keyed' = keyed \ {calls[p].c}
    /\ calls' = [calls EXCEPT ![p].op = "erased"]
    /\ UNCHANGED <<store, files, held, now, provider, contexts>>

EraseFinishes(p) ==
    /\ calls[p].op = "erased"
    /\ conns[calls[p].c].status = "erasure_pending"
    /\ LET c == calls[p].c IN
       /\ conns' = [conns EXCEPT ![c].status = "reauthorization_required",
                                 ![c].version = @ + 1, ![c].sealed = None]
       /\ leases' = ReleaseLeases(UnsettledOf(c))
       /\ files' = Without(UnsettledOf(c))
    /\ Leave(p)
    /\ UNCHANGED <<hosts, keyed, held, now, provider, contexts>>

-----------------------------------------------------------------------------
(* Leases and plaintext.                                                   *)

\* Settling what has expired, wherever a commit starts with it.
Reconcile ==
    /\ leases' = ReleaseLeases(Expired)
    /\ conns' = Settle(Expired)
    /\ files' = Without(Expired)

\* materialize captures the time and publishes expired leases as released.
MaterializeReads(p, l, c, h, mode) ==
    /\ leases[l] = NoLease /\ now < MaxTime
    /\ \A q \in Callers : calls[q].op = "idle" \/ ~("l" \in DOMAIN calls[q] /\ calls[q].l = l)
    /\ Enter(p, [op |-> "materialize", l |-> l, c |-> c, h |-> h, mode |-> mode,
                 at |-> now])
    /\ Reconcile
    /\ UNCHANGED <<hosts, keyed, held, now, provider, contexts>>

MayGrant(conn, readers, mode) ==
    /\ conn.status = "ready" /\ conn.sealed # None
    /\ mode = "refresh" => readers = {}

\* The lease is published, on the time captured before.
MaterializeCommits(p) ==
    /\ calls[p].op = "materialize"
    /\ LET c == calls[p].c  h == calls[p].h  l == calls[p].l
           gone == {m \in LeaseIds : Unsettled(m) /\ ~ActiveAt(m, calls[p].at)}
           settled == Settle(gone)
       IN
       /\ hosts[h].active
       /\ MayGrant(settled[c], UnsettledOf(c) \ gone, calls[p].mode)
       /\ leases' = [ReleaseLeases(gone) EXCEPT ![l] =
             [conn |-> c, host |-> h, hostEpoch |-> hosts[h].epoch,
              mode |-> calls[p].mode, epoch |-> settled[c].epoch,
              base |-> settled[c].version, expires |-> calls[p].at + 1,
              activated |-> FALSE, released |-> FALSE]]
       /\ conns' = IF calls[p].mode = "refresh"
                   THEN [settled EXCEPT ![c].status = "refreshing"] ELSE settled
       /\ files' = Without(gone)
       /\ calls' = [calls EXCEPT ![p] = [op |-> "open", l |-> l, c |-> c,
                                         sealed |-> settled[c].sealed]]
    /\ UNCHANGED <<hosts, keyed, held, now, provider, contexts>>

\* The state is opened and written for the attachment, whatever has become
\* of its lease meanwhile.
MaterializeWrites(p) ==
    /\ calls[p].op = "open" /\ calls[p].c \in keyed
    /\ files' = [files EXCEPT ![calls[p].l] = calls[p].sealed]
    /\ held' = held \cup {calls[p].l}
    /\ Leave(p)
    /\ UNCHANGED <<store, keyed, now, provider, contexts>>

\* Opening or writing failed: _abort_materialization releases the lease.
MaterializeAborts(p) ==
    /\ calls[p].op = "open"
    /\ LET gone == {calls[p].l} \cap {l \in LeaseIds : Unsettled(l)} IN
       /\ leases' = ReleaseLeases(gone)
       /\ conns' = Settle(gone)
       /\ files' = Without(gone)
    /\ Leave(p)
    /\ UNCHANGED <<hosts, keyed, held, now, provider, contexts>>

Activatable(l) == l \in held /\ leases[l].mode = "refresh" /\ Current(l)

Activate(l) ==
    /\ Activatable(l)
    /\ leases' = [leases EXCEPT ![l].activated = TRUE]
    /\ UNCHANGED <<hosts, conns, files, keyed, held, calls, now, provider, contexts>>

\* The runtime refreshes through its provider and replaces its file; nothing
\* tells it that its lease has been released meanwhile.
Refresh(l) ==
    /\ l \in held /\ leases[l].activated /\ files[l] # None
    /\ grants[files[l].grant] < MaxRefreshes
    /\ files[l].state = grants[files[l].grant]
    /\ grants' = [grants EXCEPT ![files[l].grant] = @ + 1]
    /\ files' = [files EXCEPT ![l].state = @ + 1]
    /\ UNCHANGED <<store, keyed, held, calls, now, granted, contexts>>

Renew(l) ==
    /\ l \in held /\ Current(l)
    /\ leases[l].expires <= now + 1 /\ now + 2 <= MaxTime
    /\ leases' = [leases EXCEPT ![l].expires = now + 2]
    /\ UNCHANGED <<hosts, conns, files, keyed, held, calls, now, provider, contexts>>

\* checkpoint reads the returned file and seals it.
CheckpointReads(p, l) ==
    /\ l \in held /\ leases[l].mode = "refresh"
    /\ held' = held \ {l}
    /\ IF Current(l) /\ leases[l].activated /\ files[l] # None
       THEN Enter(p, [op |-> "checkpoint", l |-> l, state |-> files[l]])
            /\ UNCHANGED files
       ELSE calls[p] = Idle /\ files' = Without({l}) /\ UNCHANGED calls
    /\ UNCHANGED <<store, keyed, now, provider, contexts>>

Publishable(l) ==
    /\ Current(l) /\ leases[l].activated
    /\ LET c == conns[leases[l].conn] IN
       /\ c.epoch = leases[l].epoch /\ c.version = leases[l].base
       /\ c.status = "refreshing"

\* The publication, or its refusal; either way the plaintext is cleaned.
CheckpointCommits(p) ==
    /\ calls[p].op = "checkpoint"
    /\ LET l == calls[p].l  c == leases[l].conn IN
       /\ files' = Without({l})
       /\ IF Publishable(l)
          THEN /\ conns' = [conns EXCEPT ![c].status = "ready", ![c].version = @ + 1,
                                         ![c].sealed = calls[p].state]
               /\ leases' = [leases EXCEPT ![l].released = TRUE]
               /\ contexts' = contexts \cup {<<c, conns[c].epoch, conns[c].version + 1>>}
          ELSE UNCHANGED <<conns, leases, contexts>>
    /\ Leave(p)
    /\ UNCHANGED <<hosts, keyed, held, now, provider>>

\* release settles an unreleased lease with the expired ones.
Release(l) ==
    /\ l \in held
    /\ LET gone == Expired \cup {m \in {l} : Unsettled(m)} IN
       /\ leases' = ReleaseLeases(gone)
       /\ conns' = Settle(gone)
       /\ files' = Without(gone \cup {l})
    /\ held' = held \ {l}
    /\ UNCHANGED <<hosts, keyed, calls, now, provider, contexts>>

\* recover: expired leases are settled, and the plaintext of every released
\* attachment is removed, left there by whatever crash.
Swept == Expired \cup {l \in LeaseIds : leases[l].released}

RecoverInstallation ==
    /\ \E l \in LeaseIds : l \in Expired \/ (l \in Swept /\ files[l] # None)
    /\ leases' = ReleaseLeases(Expired)
    /\ conns' = Settle(Expired)
    /\ files' = Without(Swept)
    /\ UNCHANGED <<hosts, keyed, held, calls, now, provider, contexts>>

Tick ==
    /\ now < MaxTime
    /\ now' = now + 1
    /\ UNCHANGED <<store, files, keyed, held, calls, provider, contexts>>

\* A process in the middle of a call dies, or its commit is refused.
CallEnds(p) ==
    /\ calls[p] # Idle
    /\ Leave(p)
    /\ files' = IF calls[p].op = "checkpoint" THEN Without({calls[p].l}) ELSE files
    /\ UNCHANGED <<store, keyed, held, now, provider, contexts>>

\* A runtime process dies and leaves its plaintext behind.
RuntimeDies(l) ==
    /\ l \in held
    /\ held' = held \ {l}
    /\ UNCHANGED <<store, files, keyed, calls, now, provider, contexts>>

Progress(p) ==
    \/ PublishAuthority(p) \/ EraseKey(p) \/ EraseFinishes(p)
    \/ MaterializeCommits(p) \/ MaterializeWrites(p) \/ MaterializeAborts(p)
    \/ CheckpointCommits(p) \/ CallEnds(p)

Runtime(l) ==
    Activate(l) \/ Refresh(l) \/ Renew(l) \/ Release(l) \/ RuntimeDies(l)

Next ==
    \/ \E h \in Hosts : EnrollHost(h) \/ RemoveHost(h)
    \/ \E c \in Connections : Revoke(c)
    \/ \E p \in Callers :
          \/ Progress(p)
          \/ \E c \in Connections :
                \/ ErasePrepares(p, c)
                \/ \E op \in {"authorize", "rotate"} : ReadAuthority(p, c, op)
                \/ \E l \in LeaseIds, h \in Hosts, mode \in {"read", "refresh"} :
                      MaterializeReads(p, l, c, h, mode)
          \/ \E l \in LeaseIds : CheckpointReads(p, l)
    \/ \E l \in LeaseIds : Runtime(l)
    \/ RecoverInstallation \/ Tick

Spec == Init /\ [][Next]_vars

\* Calls end, the clock runs, and the installation is recovered from time to
\* time, as its host does on start.
Fairness ==
    /\ WF_vars(Tick) /\ WF_vars(RecoverInstallation)
    /\ \A p \in Callers : WF_vars(Progress(p))

FairSpec == Spec /\ Fairness

-----------------------------------------------------------------------------
\* No operation publishes a snapshot that validate_snapshot refuses: then
\* every later load would raise and custody would be stuck for good.
StoreIsValid ==
    /\ \A l \in LeaseIds : Unsettled(l) => LiveLeaseAuthority(l)
    /\ \A c \in Connections : ActiveLeaseSet(c) /\ Ciphertext(c)

\* A connection custody calls ready holds the state its provider accepts
\* next: no crash, expiry, removal or stale writer leaves an older one.
ReadyStateIsCurrent ==
    \A c \in Connections :
        conns[c].status = "ready" =>
            /\ conns[c].sealed.grant = granted[c]
            /\ conns[c].sealed.state = grants[granted[c]]

\* A ready connection can be opened: erase never runs over new authority.
ReadyStateOpens ==
    \A c \in Connections : conns[c].status = "ready" => c \in keyed

\* What erase says of itself: a connection must be revoked before its key
\* is erased.
RevokedBeforeErasure ==
    [][\A c \in keyed \ keyed' : conns[c].status \in {"revoked", "erasure_pending"}]_vars

\* No two published ciphertexts of a connection share a key context, which
\* binds a ciphertext to its epoch and version.
FreshContext ==
    \A c \in Connections :
       (conns'[c].sealed # conns[c].sealed /\ conns'[c].sealed # None) =>
           <<c, conns'[c].epoch, conns'[c].version>> \notin contexts

\* A lease whose plaintext is on disk.
Owed(l) == files[l] # None
=============================================================================
