------------------------------- MODULE Fabric -------------------------------
(***************************************************************************)
(* The inter-Instance delivery plane: processes registered in PostgreSQL   *)
(* expose sources, offer services, grant senders; senders submit envelopes *)
(* under a stable delivery identity; the recipient's inbox delivers them   *)
(* into its Engine and acknowledges the occurrence that took each one.     *)
(*                                                                         *)
(* Connections are autocommit.  A submit reads the identity and the grant, *)
(* and inserts afterwards, so other connections move between the two; a    *)
(* drain reads its batch once and then delivers and acknowledges envelope  *)
(* by envelope.  NOTIFY is a wake hint and is left out: inboxes poll.      *)
(***************************************************************************)
EXTENDS Integers, Sequences, FiniteSets, TLAPS

CONSTANTS
    Processes, Sources, DeliveryIds, Payloads,
    Services, Capabilities,
    Credentials,
    Connections,    \* client connections, of whichever process opens them
    NetSources,     \* the sources the recipients' deployed nets have
    Limit,          \* batch size of drain
    MaxCrashes,     \* bound on connections lost in the middle of a call
    None

VARIABLES
    schema,     \* what the database's impetus_fabric schema is
    processes,  \* credential of each registered process
    exposed,    \* exposed_sources
    offers,     \* service_offers
    grants,     \* delivery_grants
    granted,    \* every grant there has ever been
    deliveries, \* deliveries, by identity
    hist,       \* per recipient, the envelopes its Engine took, by occurrence
    client,     \* identity and credential each connection presents
    work,       \* the call each connection is in
    endpoints,  \* what the last discover of each connection returned
    answered,   \* envelopes whose submission has been answered to the sender
    crashes

tables == <<processes, exposed, offers, grants, granted>>
vars == <<schema, processes, exposed, offers, grants, granted, deliveries,
          hist, client, work, endpoints, answered, crashes>>

Identities == Processes \X DeliveryIds
Idle == [op |-> "idle"]
Submitting(e) == [op |-> "submit", e |-> e]
Draining(batch, occurrence) ==
    [op |-> "drain", batch |-> batch, occurrence |-> occurrence]
NoRow == [digest |-> None, envelope |-> None, occurrence |-> None, at |-> 0]

Envelopes ==
    [sender : Processes, id : DeliveryIds, recipient : Processes,
     source : Sources, payload : Payloads]

Identity(e) == <<e.sender, e.id>>

\* digest: SHA-256 of the whole canonical envelope, so equal exactly when the
\* envelopes are.
Digest(e) == e

\* The occurrence identity at the recipient: the length prefix keeps the pair
\* of sender and delivery id apart.
IngressIdentity(e) == <<e.sender, e.id>>

Init ==
    /\ schema \in {"absent", "v1", "unversioned", "other"}
    /\ processes = [p \in Processes |-> None]
    /\ exposed = {} /\ offers = {} /\ grants = {} /\ granted = {}
    /\ deliveries = [k \in Identities |-> NoRow]
    /\ hist = [p \in Processes |-> <<>>]
    /\ client = [c \in Connections |-> None]
    /\ work = [c \in Connections |-> Idle]
    /\ endpoints = [c \in Connections |-> {}]
    /\ answered = {}
    /\ crashes = 0

-----------------------------------------------------------------------------
(* The trusted operator.                                                   *)

\* An unversioned table or another version raises and leaves the database.
EnsureFabricSchema ==
    /\ schema = "absent"
    /\ schema' = "v1"
    /\ UNCHANGED <<tables, deliveries, hist, client, work, endpoints,
                   answered, crashes>>

\* Registering again with another credential raises.
RegisterProcess(p, k) ==
    /\ schema = "v1"
    /\ processes[p] = None
    /\ processes' = [processes EXCEPT ![p] = k]
    /\ UNCHANGED <<schema, exposed, offers, grants, granted, deliveries, hist,
                   client, work, endpoints, answered, crashes>>

Connect(c, p, k) ==
    /\ client[c] = None
    /\ client' = [client EXCEPT ![c] = [instance |-> p, credential |-> k]]
    /\ UNCHANGED <<schema, tables, deliveries, hist, work, endpoints,
                   answered, crashes>>

-----------------------------------------------------------------------------
(* Addresses and grants.                                                   *)

Auth(c) ==
    /\ schema = "v1"
    /\ client[c] # None
    /\ processes[client[c].instance] = client[c].credential

Me(c) == client[c].instance
Calls(c) == work[c] = Idle /\ Auth(c)

ExposeSource(c, s) ==
    /\ Calls(c)
    /\ exposed' = exposed \cup {<<Me(c), s>>}
    /\ UNCHANGED <<schema, processes, offers, grants, granted, deliveries,
                   hist, client, work, endpoints, answered, crashes>>

\* The foreign key refuses a source that is not exposed; the capabilities of
\* an earlier offer are replaced.
OfferService(c, s, service, capabilities) ==
    /\ Calls(c)
    /\ <<Me(c), s>> \in exposed
    /\ offers' = {o \in offers : <<o.instance, o.source, o.service>>
                                     # <<Me(c), s, service>>}
                 \cup {[instance |-> Me(c), source |-> s, service |-> service,
                        capabilities |-> capabilities]}
    /\ UNCHANGED <<schema, processes, exposed, grants, granted, deliveries,
                   hist, client, work, endpoints, answered, crashes>>

\* Foreign keys: a registered sender, an exposed source of the caller.
GrantDelivery(c, sender, s) ==
    /\ Calls(c)
    /\ processes[sender] # None /\ <<Me(c), s>> \in exposed
    /\ grants' = grants \cup {<<sender, Me(c), s>>}
    /\ granted' = granted \cup {<<sender, Me(c), s>>}
    /\ UNCHANGED <<schema, processes, exposed, offers, deliveries, hist,
                   client, work, endpoints, answered, crashes>>

Revoke(c, sender, s) ==
    /\ Calls(c)
    /\ grants' = grants \ {<<sender, Me(c), s>>}
    /\ UNCHANGED <<schema, processes, exposed, offers, granted, deliveries,
                   hist, client, work, endpoints, answered, crashes>>

\* The join of offers and grants.
Found(sender, service, wanted) ==
    {o \in offers : /\ o.service = service /\ wanted \subseteq o.capabilities
                    /\ <<sender, o.instance, o.source>> \in grants}

Discover(c, service, wanted) ==
    /\ Calls(c)
    /\ endpoints' = [endpoints EXCEPT ![c] =
                        {[recipient |-> o.instance, source |-> o.source] :
                             o \in Found(Me(c), service, wanted)}]
    /\ UNCHANGED <<schema, tables, deliveries, hist, client, work, answered,
                   crashes>>

-----------------------------------------------------------------------------
(* Submission.                                                             *)

\* Mutant: an exposed source takes mail from anyone.
AllowedUngranted(e) == <<e.recipient, e.source>> \in exposed

Allowed(e) ==
    /\ <<e.recipient, e.source>> \in exposed
    /\ <<e.sender, e.recipient, e.source>> \in grants

\* The prior row answers a retry; other content raises instead.
PriorSubmission(e) == deliveries[Identity(e)].digest = Digest(e)

Answered(c, e) ==
    /\ answered' = answered \cup {e}
    /\ work' = [work EXCEPT ![c] = Idle]

Refused(c) ==
    /\ work' = [work EXCEPT ![c] = Idle]
    /\ UNCHANGED answered

\* The first reads of submit: a prior row ends the call, and so does a
\* source that is not exposed and granted.
SubmitReads(c, e) ==
    /\ Calls(c)
    /\ e.sender = Me(c)
    /\ \/ /\ deliveries[Identity(e)] # NoRow
          /\ IF PriorSubmission(e) THEN Answered(c, e) ELSE Refused(c)
       \/ /\ deliveries[Identity(e)] = NoRow
          /\ IF Allowed(e)
             THEN /\ work' = [work EXCEPT ![c] = Submitting(e)]
                  /\ UNCHANGED answered
             ELSE Refused(c)
    /\ UNCHANGED <<schema, tables, deliveries, hist, client, endpoints,
                   crashes>>

NewRow(e) ==
    [digest |-> Digest(e), envelope |-> e, occurrence |-> None,
     at |-> Cardinality({k \in Identities : deliveries[k] # NoRow})]

\* Mutant: ON CONFLICT DO UPDATE.
SubmitUpserts(c) ==
    /\ work[c].op = "submit"
    /\ deliveries' = [deliveries EXCEPT ![Identity(work[c].e)] = NewRow(work[c].e)]
    /\ Answered(c, work[c].e)
    /\ UNCHANGED <<schema, tables, hist, client, endpoints, crashes>>

\* Mutant: ON CONFLICT starts the delivery of the same content again.
SubmitRestarts(c) ==
    /\ work[c].op = "submit"
    /\ LET e == work[c].e IN
       IF deliveries[Identity(e)] = NoRow \/ PriorSubmission(e)
       THEN /\ deliveries' = [deliveries EXCEPT ![Identity(e)] = NewRow(e)]
            /\ Answered(c, e)
       ELSE UNCHANGED deliveries /\ Refused(c)
    /\ UNCHANGED <<schema, tables, hist, client, endpoints, crashes>>

\* INSERT ... ON CONFLICT DO NOTHING, and the row of the submit that won.
SubmitInserts(c) ==
    /\ work[c].op = "submit"
    /\ LET e == work[c].e IN
       IF deliveries[Identity(e)] = NoRow
       THEN /\ deliveries' = [deliveries EXCEPT ![Identity(e)] = NewRow(e)]
            /\ Answered(c, e)
       ELSE /\ UNCHANGED deliveries
            /\ IF PriorSubmission(e) THEN Answered(c, e) ELSE Refused(c)
    /\ UNCHANGED <<schema, tables, hist, client, endpoints, crashes>>

-----------------------------------------------------------------------------
(* The recipient's inbox.                                                  *)

PendingRows(p) ==
    {k \in Identities : /\ deliveries[k] # NoRow
                        /\ deliveries[k].digest.recipient = p
                        /\ deliveries[k].occurrence = None}

\* ORDER BY submitted_at LIMIT: the oldest pending rows, in their order.
Batches(p) ==
    {batch \in UNION {[1..n -> PendingRows(p)] : n \in 1..Limit} :
        /\ \A i, j \in DOMAIN batch :
              i < j => deliveries[batch[i]].at < deliveries[batch[j]].at
        /\ \A k \in PendingRows(p) :
              \/ \E i \in DOMAIN batch : batch[i] = k
              \/ /\ Limit \in DOMAIN batch
                 /\ deliveries[batch[Limit]].at < deliveries[k].at}

DrainReads(c) ==
    /\ Calls(c)
    /\ \E batch \in Batches(Me(c)) :
          work' = [work EXCEPT ![c] =
                      Draining([i \in DOMAIN batch |-> deliveries[batch[i]].envelope],
                               None)]
    /\ UNCHANGED <<schema, tables, deliveries, hist, client, endpoints,
                   answered, crashes>>

\* The occurrence that already took this ingress identity, at the recipient.
PriorOccurrences(p, e) ==
    {i \in DOMAIN hist[p] : IngressIdentity(hist[p][i]) = IngressIdentity(e)}

\* delivery_door.deliver: a firing outcome, a prior acknowledgement, or an
\* exception that ends the drain when the net cannot take the envelope.
Deliver(c) ==
    /\ work[c].op = "drain" /\ work[c].occurrence = None
    /\ LET batch == work[c].batch  e == Head(batch)  p == Me(c) IN
       \/ /\ e.source \notin NetSources
          /\ work' = [work EXCEPT ![c] = Idle]
          /\ UNCHANGED hist
       \/ /\ \E i \in PriorOccurrences(p, e) :
                work' = [work EXCEPT ![c] = Draining(batch, i)]
          /\ UNCHANGED hist
       \/ /\ e.source \in NetSources /\ PriorOccurrences(p, e) = {}
          /\ hist' = [hist EXCEPT ![p] = Append(@, e)]
          /\ work' = [work EXCEPT ![c] = Draining(batch, Len(hist[p]) + 1)]
    /\ UNCHANGED <<schema, tables, deliveries, client, endpoints, answered,
                   crashes>>

\* acknowledge: accepted once; another occurrence raises.
AcceptedBy(row, occurrence) ==
    IF row.occurrence = None THEN [row EXCEPT !.occurrence = occurrence]
    ELSE row

Acknowledge(c) ==
    /\ work[c].op = "drain" /\ work[c].occurrence # None
    /\ LET batch == work[c].batch
           k == Identity(Head(batch))
           n == work[c].occurrence
           row == deliveries[k]
       IN IF row.occurrence \notin {None, n}
          THEN work' = [work EXCEPT ![c] = Idle] /\ UNCHANGED deliveries
          ELSE /\ deliveries' = [deliveries EXCEPT ![k] = AcceptedBy(row, n)]
               /\ work' = [work EXCEPT ![c] =
                              IF Len(batch) = 1 THEN Idle
                              ELSE Draining(Tail(batch), None)]
    /\ UNCHANGED <<schema, tables, hist, client, endpoints, answered, crashes>>

\* accepted_at < cutoff, the cutoff counted in acceptances.
Prunable(p, n) ==
    {k \in Identities : /\ deliveries[k] # NoRow
                        /\ deliveries[k].digest.recipient = p
                        /\ deliveries[k].envelope # None
                        /\ deliveries[k].occurrence \in 1..n}

PruneAccepted(c) ==
    /\ Calls(c)
    /\ \E n \in 1..Cardinality(Identities) :
          /\ Prunable(Me(c), n) # {}
          /\ deliveries' = [k \in Identities |->
                               IF k \in Prunable(Me(c), n)
                               THEN [deliveries[k] EXCEPT !.envelope = None]
                               ELSE deliveries[k]]
    /\ UNCHANGED <<schema, tables, hist, client, work, endpoints, answered,
                   crashes>>

\* The process or its connection dies; an open transaction rolls back and
\* the envelopes already delivered stay delivered.
Crash(c) ==
    /\ work[c] # Idle
    /\ crashes < MaxCrashes
    /\ crashes' = crashes + 1
    /\ work' = [work EXCEPT ![c] = Idle]
    /\ client' = [client EXCEPT ![c] = None]
    /\ endpoints' = [endpoints EXCEPT ![c] = {}]
    /\ UNCHANGED <<schema, tables, deliveries, hist, answered>>

Setup ==
    \/ EnsureFabricSchema
    \/ \E p \in Processes, k \in Credentials :
          \/ RegisterProcess(p, k)
          \/ \E c \in Connections : Connect(c, p, k)

Address(c) ==
    \E s \in Sources :
        \/ ExposeSource(c, s)
        \/ \E p \in Processes : GrantDelivery(c, p, s) \/ Revoke(c, p, s)

Advertise(c) ==
    \E v \in Services, caps \in SUBSET Capabilities :
        \/ \E s \in Sources : OfferService(c, s, v, caps)
        \/ Discover(c, v, caps)

Step(c) ==
    SubmitInserts(c) \/ DrainReads(c) \/ Deliver(c) \/ Acknowledge(c)

Next ==
    \/ Setup
    \/ \E c \in Connections :
          \/ Address(c) \/ Advertise(c) \/ Step(c) \/ PruneAccepted(c) \/ Crash(c)
          \/ \E e \in Envelopes : SubmitReads(c, e)

Spec == Init /\ [][Next]_vars

\* A deployment in which every other process already talks to recipient r:
\* registered, exposed and granted.
Deployed(r, key) ==
    /\ schema = "v1"
    /\ processes = [p \in Processes |-> key]
    /\ exposed = {<<r, s>> : s \in Sources}
    /\ grants = {<<p, r, s>> : p \in Processes \ {r}, s \in Sources}
    /\ granted = grants
    /\ offers = {}
    /\ deliveries = [k \in Identities |-> NoRow]
    /\ hist = [p \in Processes |-> <<>>]
    /\ client = [c \in Connections |-> None]
    /\ work = [c \in Connections |-> Idle]
    /\ endpoints = [c \in Connections |-> {}]
    /\ answered = {}
    /\ crashes = 0

\* The recipient's hosts use the connections inboxes, the senders the others.
Reconnect(c, r, key, inboxes) ==
    \E p \in IF c \in inboxes THEN {r} ELSE Processes \ {r} : Connect(c, p, key)

Traffic(r, key, inboxes) ==
    \E c \in Connections :
        \/ Reconnect(c, r, key, inboxes)
        \/ \E p \in Processes \ {r}, s \in Sources : Revoke(c, p, s)
        \/ Step(c) \/ PruneAccepted(c) \/ Crash(c)
        \/ \E e \in Envelopes : e.recipient = r /\ e.sender # r /\ SubmitReads(c, e)

-----------------------------------------------------------------------------
Rows == {k \in Identities : deliveries[k] # NoRow}
Toxic(k) == deliveries[k].digest.source \notin NetSources

\* A receipt names the occurrence that took exactly this envelope: what
\* FabricInbox.drain acknowledges is the recipient's own delivery, also
\* after a crash between delivering and acknowledging, with two drains at
\* once, and with two senders using one delivery id.
AcceptedByItsOccurrence ==
    \A k \in Rows :
        deliveries[k].occurrence # None =>
            LET r == deliveries[k].digest.recipient IN
            /\ deliveries[k].occurrence \in DOMAIN hist[r]
            /\ hist[r][deliveries[k].occurrence] = deliveries[k].digest

\* However often a delivery is drained, the recipient's Engine takes it once.
DeliveredOnce ==
    \A p \in Processes : \A i, j \in DOMAIN hist[p] :
        Identity(hist[p][i]) = Identity(hist[p][j]) => i = j

\* A submission answered to its sender is recorded with that content, however
\* two submits of one identity interleave.
AnsweredIsRecorded ==
    \A e \in answered : deliveries[Identity(e)].digest = Digest(e)

\* prune_accepted only drops payloads the recipient's Engine already has.
PrunedIsDelivered ==
    \A k \in Rows :
        deliveries[k].envelope = None =>
            \E i \in DOMAIN hist[deliveries[k].digest.recipient] :
                hist[deliveries[k].digest.recipient][i] = deliveries[k].digest

\* Nothing reaches a source its process never granted to the sender.
SubmittedWasGranted ==
    \A k \in Rows :
        LET e == deliveries[k].digest IN <<e.sender, e.recipient, e.source>> \in granted

\* discover only shows sources the asking process could have been sending to.
DiscoveredWasGranted ==
    \A c \in Connections : \A o \in endpoints[c] :
        <<Me(c), o.recipient, o.source>> \in granted

\* Neither the content of a delivery nor its receipt changes once recorded.
RecordsKept ==
    \A k \in Rows :
       /\ deliveries'[k].digest = deliveries[k].digest
       /\ deliveries[k].occurrence # None =>
              deliveries'[k].occurrence = deliveries[k].occurrence

\* What the Fabric promises, at every moment: the recipient's Engine takes a
\* delivery once, a receipt names the occurrence that took exactly this envelope,
\* an answered submission is recorded with its content, a pruned payload has been
\* delivered, and nothing is submitted or discovered without a grant
\* (PostgresFabric.submit, acknowledge, prune_accepted, discover; FabricInbox.drain).
MailStands ==
    /\ DeliveredOnce /\ AcceptedByItsOccurrence /\ AnsweredIsRecorded
    /\ PrunedIsDelivered /\ SubmittedWasGranted /\ DiscoveredWasGranted

\* The content of a delivery and its receipt stand, whatever is submitted again,
\* acknowledged twice or pruned (PostgresFabric.submit, acknowledge, prune_accepted).
RecordsStay == [][RecordsKept]_vars

\* A pending delivery to a recipient, unless an envelope that its net cannot
\* take is pending there too: drain stops at the first delivery that raises.
Owed(k, r) ==
    /\ k \in Rows /\ deliveries[k].occurrence = None
    /\ \A j \in PendingRows(r) : ~Toxic(j)

-----------------------------------------------------------------------------
(* Proofs.                                                                 *)

\* A recorded envelope and a receipt can be told from their absence.
ConstantsOk == None \notin Envelopes /\ None \notin Nat

\* The submission of e is recorded; occurrence n of its recipient took e.
Recorded(e) == deliveries[Identity(e)].digest = e
Took(n, e) == n \in 1..Len(hist[e.recipient]) /\ hist[e.recipient][n] = e
Granted(e) == <<e.sender, e.recipient, e.source>> \in granted

RowOk(k, row) ==
    /\ row = [digest |-> row.digest, envelope |-> row.envelope,
              occurrence |-> row.occurrence, at |-> row.at]
    /\ row.digest \in Envelopes /\ Identity(row.digest) = k
    /\ Granted(row.digest)
    /\ row.occurrence # None => row.occurrence \in Nat /\ Took(row.occurrence, row.digest)
    /\ row.envelope # row.digest => row.envelope = None /\ row.occurrence # None

\* An Engine holds only what was submitted to its process, and that once.
HistOk(p) ==
    /\ hist[p] \in Seq(Envelopes)
    /\ \A i \in 1..Len(hist[p]) : hist[p][i].recipient = p /\ Recorded(hist[p][i])
    /\ \A i, j \in 1..Len(hist[p]) : Identity(hist[p][i]) = Identity(hist[p][j]) => i = j

BatchOk(c, batch) ==
    /\ batch \in Seq(Envelopes) /\ batch # <<>>
    /\ \A i \in 1..Len(batch) : batch[i].recipient = Me(c) /\ Recorded(batch[i])

\* What a connection in the middle of a call may rely on.
CallOk(c) ==
    \/ work[c] = Idle
    \/ /\ client[c] # None
       /\ \E e \in Envelopes : work[c] = Submitting(e) /\ Granted(e)
    \/ /\ client[c] # None
       /\ \E batch \in Seq(Envelopes), n \in Nat \cup {None} :
             /\ work[c] = Draining(batch, n) /\ BatchOk(c, batch)
             /\ n # None => Took(n, batch[1])

ClientOk(c) ==
    /\ client[c] # None => Me(c) \in Processes
    /\ client[c] = None => endpoints[c] = {}
    /\ \A o \in endpoints[c] : <<Me(c), o.recipient, o.source>> \in granted

TypeOk ==
    /\ deliveries = [k \in Identities |-> deliveries[k]]
    /\ hist \in [Processes -> Seq(Envelopes)]
    /\ work = [c \in Connections |-> work[c]]
    /\ client = [c \in Connections |-> client[c]]
    /\ endpoints = [c \in Connections |-> endpoints[c]]
    /\ answered \subseteq Envelopes
    /\ grants \subseteq granted

\* The inductive invariant: rows, histories and calls in flight agree on what
\* was submitted and what took it.
FabricInv ==
    /\ TypeOk
    /\ \A k \in Identities : deliveries[k] = NoRow \/ RowOk(k, deliveries[k])
    /\ \A p \in Processes : HistOk(p)
    /\ \A c \in Connections : CallOk(c) /\ ClientOk(c)
    /\ \A e \in answered : Recorded(e)

\* What every step keeps: submissions, deliveries and grants once made.
Grows ==
    /\ \A e \in Envelopes : Recorded(e) => Recorded(e)'
    /\ \A e \in Envelopes, n \in Nat : Took(n, e) => Took(n, e)'
    /\ granted \subseteq granted'

LEMMA IdentityOk == ASSUME NEW e \in Envelopes PROVE Identity(e) \in Identities /\ e.recipient \in Processes
  BY DEF Envelopes, Identity, Identities

\* A row nothing touched stays well-formed.
LEMMA RowKept ==
    ASSUME Grows, NEW k, NEW row, RowOk(k, row)
    PROVE  RowOk(k, row)'
  BY DEF Grows, RowOk, Granted

LEMMA BatchKept ==
    ASSUME Grows, NEW c, NEW batch, BatchOk(c, batch), client'[c] = client[c]
    PROVE  BatchOk(c, batch)'
  <1>1. \A i \in 1..Len(batch) : batch[i] \in Envelopes
    BY DEF BatchOk
  <1> QED
    BY <1>1 DEF Grows, BatchOk, Me

\* A connection nothing touched stays in the call it was in.
LEMMA CallKept ==
    ASSUME Grows, NEW c, CallOk(c), work'[c] = work[c], client'[c] = client[c]
    PROVE  CallOk(c)'
  <1>1. CASE work[c] = Idle
    BY <1>1 DEF CallOk
  <1>2. CASE client[c] # None /\ \E e \in Envelopes : work[c] = Submitting(e) /\ Granted(e)
    BY <1>2, Zenon DEF CallOk, Grows, Granted, Submitting
  <1>3. CASE /\ client[c] # None
             /\ \E batch \in Seq(Envelopes), n \in Nat \cup {None} :
                   /\ work[c] = Draining(batch, n) /\ BatchOk(c, batch)
                   /\ n # None => Took(n, batch[1])
    <2>1. PICK batch \in Seq(Envelopes), n \in Nat \cup {None} :
             /\ work[c] = Draining(batch, n) /\ BatchOk(c, batch)
             /\ n # None => Took(n, batch[1])
      BY <1>3, Zenon
    <2>2. BatchOk(c, batch)'
      BY <2>1, BatchKept
    <2>3. batch[1] \in Envelopes
      BY <2>1 DEF BatchOk
    <2>4. n # None => Took(n, batch[1])'
      BY <2>1, <2>3 DEF Grows
    <2> QED
      BY <1>3, <2>1, <2>2, <2>4, Zenon DEF CallOk, Draining
  <1> QED
    BY <1>1, <1>2, <1>3 DEF CallOk

LEMMA ClientKept ==
    ASSUME Grows, NEW c, ClientOk(c), client'[c] = client[c], endpoints'[c] = endpoints[c]
    PROVE  ClientOk(c)'
  BY DEF Grows, ClientOk, Me


LEMMA HistKept ==
    ASSUME Grows, NEW p, HistOk(p), hist'[p] = hist[p]
    PROVE  HistOk(p)'
  <1>1. \A i \in 1..Len(hist[p]) : hist[p][i] \in Envelopes
    BY DEF HistOk
  <1>2. \A i \in 1..Len(hist[p]) : Recorded(hist[p][i])'
    BY <1>1 DEF HistOk, Grows
  <1>3. \A i \in 1..Len(hist[p]) : hist'[p][i] = hist[p][i]
    OBVIOUS
  <1>4. \A i \in 1..Len(hist'[p]) : Recorded(hist[p][i])'
    BY <1>2, <1>3 DEF Recorded
  <1> QED
    BY <1>4 DEF HistOk, Identity

\* What a step has to show: that it grows, and that what it changed is again
\* as the invariant says.
LEMMA Assembled ==
    ASSUME FabricInv, Grows, TypeOk',
           \A k \in Identities : deliveries'[k] = deliveries[k] \/ RowOk(k, deliveries[k])',
           \A p \in Processes : hist'[p] = hist[p] \/ HistOk(p)',
           \A c \in Connections :
              (work'[c] = work[c] /\ client'[c] = client[c]) \/ CallOk(c)',
           \A c \in Connections :
              (endpoints'[c] = endpoints[c] /\ client'[c] = client[c]) \/ ClientOk(c)',
           \A e \in answered' : e \in answered \/ Recorded(e)'
    PROVE  FabricInv'
  <1>1. \A k \in Identities : (deliveries[k] = NoRow)' \/ RowOk(k, deliveries[k])'
    <2> TAKE k \in Identities
    <2>1. CASE deliveries'[k] = deliveries[k]
      <3>1. RowOk(k, deliveries[k]) => RowOk(k, deliveries[k])'
        BY <2>1 DEF RowOk, Grows, Granted
      <3> QED
        BY <2>1, <3>1 DEF FabricInv, NoRow
    <2> QED
      BY <2>1
  <1>2. \A p \in Processes : HistOk(p)'
    BY HistKept DEF FabricInv
  <1>3. \A c \in Connections : CallOk(c)'
    BY CallKept DEF FabricInv
  <1>4. \A c \in Connections : ClientOk(c)'
    BY ClientKept DEF FabricInv
  <1>5. \A e \in answered' : Recorded(e)'
    BY DEF FabricInv, TypeOk, Grows
  <1> QED
    BY <1>1, <1>2, <1>3, <1>4, <1>5 DEF FabricInv

\* A step that leaves submissions and histories alone grows.
LEMMA StillGrows ==
    ASSUME UNCHANGED <<deliveries, hist>>, granted \subseteq granted'
    PROVE  Grows
  BY DEF Grows, Recorded, Took

\* A call that ends leaves nothing behind.
LEMMA EndedOk ==
    ASSUME TypeOk, NEW c \in Connections, work' = [work EXCEPT ![c] = Idle]
    PROVE  CallOk(c)'
  BY DEF CallOk, TypeOk

-----------------------------------------------------------------------------
(* One lemma per action.                                                   *)

\* Opening a database, registering and addressing touch no row and no call;
\* grants that are made are remembered.
LEMMA AddressOk ==
    ASSUME FabricInv, UNCHANGED <<deliveries, hist, client, work, endpoints, answered>>,
           grants' \subseteq granted', granted \subseteq granted'
    PROVE  FabricInv'
  <1>1. Grows
    BY StillGrows
  <1>2. TypeOk'
    BY DEF FabricInv, TypeOk
  <1> QED
    BY <1>1, <1>2, Assembled

LEMMA ConnectOk ==
    ASSUME FabricInv, NEW c \in Connections, NEW p \in Processes, NEW k,
           Connect(c, p, k)
    PROVE  FabricInv'
  <1>1. Grows
    BY StillGrows DEF Connect, tables
  <1>2. TypeOk'
    BY Zenon DEF FabricInv, TypeOk, Connect, tables
  <1>3. CallOk(c)'
    BY DEF FabricInv, CallOk, Connect
  <1>4. ClientOk(c)'
    BY DEF FabricInv, ClientOk, TypeOk, Connect, Me
  <1>5. \A d \in Connections \ {c} : client'[d] = client[d]
    BY DEF FabricInv, TypeOk, Connect
  <1> QED
    BY <1>1, <1>2, <1>3, <1>4, <1>5, Assembled DEF Connect

LEMMA DiscoverOk ==
    ASSUME FabricInv, NEW c \in Connections, NEW v, NEW wanted,
           Discover(c, v, wanted)
    PROVE  FabricInv'
  <1>1. Grows
    BY StillGrows DEF Discover, tables
  <1>2. TypeOk'
    BY Zenon DEF FabricInv, TypeOk, Discover, tables
  <1>3. \A o \in Found(Me(c), v, wanted) : <<Me(c), o.instance, o.source>> \in granted
    BY DEF Found, FabricInv, TypeOk
  <1>4. endpoints'[c] = {[recipient |-> o.instance, source |-> o.source] :
                            o \in Found(Me(c), v, wanted)}
    BY DEF Discover, FabricInv, TypeOk
  <1>5. ClientOk(c)'
    BY <1>3, <1>4 DEF FabricInv, ClientOk, Discover, Me, Calls, Auth, tables
  <1>6. \A d \in Connections \ {c} : endpoints'[d] = endpoints[d]
    BY DEF FabricInv, TypeOk, Discover
  <1> QED
    BY <1>1, <1>2, <1>5, <1>6, Assembled DEF Discover

LEMMA CrashOk ==
    ASSUME FabricInv, NEW c \in Connections, Crash(c)
    PROVE  FabricInv'
  <1>1. Grows
    BY StillGrows DEF Crash, tables
  <1>2. TypeOk'
    BY Zenon DEF FabricInv, TypeOk, Crash, tables
  <1>3. CallOk(c)'
    BY EndedOk, Zenon DEF FabricInv, Crash
  <1>4. ClientOk(c)'
    BY DEF FabricInv, ClientOk, TypeOk, Crash
  <1>5. \A d \in Connections \ {c} :
           work'[d] = work[d] /\ client'[d] = client[d] /\ endpoints'[d] = endpoints[d]
    BY Zenon DEF FabricInv, TypeOk, Crash
  <1> QED
    BY <1>1, <1>2, <1>3, <1>4, <1>5, Assembled DEF Crash

\* The reads of a submit: a prior row answers it, a grant lets it go on.
LEMMA SubmitReadsOk ==
    ASSUME FabricInv, NEW c \in Connections, NEW e \in Envelopes, SubmitReads(c, e)
    PROVE  FabricInv'
  <1>1. Grows
    BY StillGrows DEF SubmitReads, tables
  <1>2. PriorSubmission(e) => Recorded(e)'
    BY DEF PriorSubmission, Recorded, Digest, SubmitReads
  <1>3. CASE work' = [work EXCEPT ![c] = Idle]
    <2>1. answered' = answered \/ (answered' = answered \cup {e} /\ PriorSubmission(e))
      <3>1. CASE deliveries[Identity(e)] # NoRow
        BY <3>1 DEF SubmitReads, Answered, Refused
      <3>2. CASE deliveries[Identity(e)] = NoRow
        BY <3>2 DEF SubmitReads, Refused
      <3> QED
        BY <3>1, <3>2
    <2>2. TypeOk'
      BY <1>3, <2>1, Zenon DEF FabricInv, TypeOk, SubmitReads, tables
    <2>3. CallOk(c)'
      BY <1>3, EndedOk, Zenon DEF FabricInv
    <2>4. \A d \in Connections \ {c} : work'[d] = work[d]
      BY <1>3 DEF FabricInv, TypeOk
    <2> QED
      BY <1>1, <1>2, <2>1, <2>2, <2>3, <2>4, Assembled DEF SubmitReads
  <1>4. CASE work' = [work EXCEPT ![c] = Submitting(e)] /\ Allowed(e) /\ UNCHANGED answered
    <2>1. TypeOk'
      BY <1>4, Zenon DEF FabricInv, TypeOk, SubmitReads, tables
    <2>2. Granted(e)'
      BY <1>4 DEF Allowed, Granted, FabricInv, TypeOk, SubmitReads, tables
    <2>3. CallOk(c)'
      BY <1>4, <2>2 DEF CallOk, FabricInv, TypeOk, SubmitReads, Calls, Auth
    <2>4. \A d \in Connections \ {c} : work'[d] = work[d]
      BY <1>4 DEF FabricInv, TypeOk
    <2> QED
      BY <1>1, <1>4, <2>1, <2>3, <2>4, Assembled DEF SubmitReads
  <1> QED
    BY <1>3, <1>4 DEF SubmitReads, Answered, Refused

LEMMA Kinds ==
    /\ Idle.op = "idle"
    /\ \A e : Submitting(e).op = "submit"
    /\ \A batch, n : Draining(batch, n).op = "drain"
  BY DEF Idle, Submitting, Draining

LEMMA SubmitCall ==
    ASSUME NEW c, CallOk(c), work[c].op = "submit"
    PROVE  work[c].e \in Envelopes /\ Granted(work[c].e)
  <1>1. PICK e \in Envelopes : work[c] = Submitting(e) /\ Granted(e)
    BY Kinds DEF CallOk
  <1> QED
    BY <1>1 DEF Submitting

LEMMA DrainCall ==
    ASSUME NEW c, CallOk(c), work[c].op = "drain"
    PROVE  /\ client[c] # None
           /\ BatchOk(c, work[c].batch)
           /\ work[c].occurrence # None =>
                 work[c].occurrence \in Nat /\ Took(work[c].occurrence, work[c].batch[1])
  <1>1. client[c] # None
    BY Kinds DEF CallOk
  <1>2. PICK batch \in Seq(Envelopes), n \in Nat \cup {None} :
           /\ work[c] = Draining(batch, n) /\ BatchOk(c, batch)
           /\ n # None => Took(n, batch[1])
    BY Kinds, Zenon DEF CallOk
  <1>3. work[c].batch = batch /\ work[c].occurrence = n
    BY <1>2 DEF Draining
  <1> QED
    BY <1>1, <1>2, <1>3

\* INSERT ... ON CONFLICT DO NOTHING: a new row is the submitted envelope's, a
\* row that was there first answers only for its own content.
LEMMA SubmitInsertsOk ==
    ASSUME ConstantsOk, FabricInv, NEW c \in Connections, SubmitInserts(c)
    PROVE  FabricInv'
  <1>1. PICK e \in Envelopes : e = work[c].e /\ Granted(e)
    BY SubmitCall DEF FabricInv, SubmitInserts
  <1>2. Identity(e) \in Identities
    BY <1>1, IdentityOk
  <1>3. /\ work' = [work EXCEPT ![c] = Idle]
        /\ UNCHANGED <<hist, client, endpoints, granted, grants>>
    BY DEF SubmitInserts, Answered, Refused, tables
  <1>4. CallOk(c)'
    BY <1>3, EndedOk, Zenon DEF FabricInv
  <1>5. \A d \in Connections \ {c} : work'[d] = work[d]
    BY <1>3 DEF FabricInv, TypeOk
  <1>6. CASE deliveries[Identity(e)] = NoRow
    <2>1. deliveries' = [deliveries EXCEPT ![Identity(e)] = NewRow(e)] /\ answered' = answered \cup {e}
      BY <1>1, <1>6 DEF SubmitInserts, Answered
    <2>2. /\ deliveries'[Identity(e)] = NewRow(e)
          /\ \A k \in Identities \ {Identity(e)} : deliveries'[k] = deliveries[k]
      BY <1>2, <2>1 DEF FabricInv, TypeOk
    <2>3. NewRow(e).digest = e
      BY DEF NewRow, Digest
    <2>4. \A f \in Envelopes : Recorded(f) => Recorded(f)'
      <3> SUFFICES ASSUME NEW f \in Envelopes, Recorded(f) PROVE deliveries'[Identity(f)].digest = f
        BY DEF Recorded, Identity
      <3>1. Identity(f) # Identity(e)
        BY <1>6 DEF Recorded, NoRow, ConstantsOk
      <3> QED
        BY <2>2, <3>1, IdentityOk DEF Recorded
    <2>5. Grows
      BY <1>3, <2>4 DEF Grows, Took
    <2>6. TypeOk'
      BY <1>1, <1>3, <2>1, Zenon DEF FabricInv, TypeOk
    <2>7. RowOk(Identity(e), deliveries[Identity(e)])'
      BY <1>1, <1>3, <2>2 DEF RowOk, NewRow, Digest, Granted, Identity
    <2>8. Recorded(e)'
      BY <2>2, <2>3 DEF Recorded, Identity
    <2> QED
      BY <1>3, <1>4, <1>5, <2>1, <2>2, <2>5, <2>6, <2>7, <2>8, Assembled
  <1>7. CASE deliveries[Identity(e)] # NoRow
    <2>1. /\ UNCHANGED deliveries
          /\ answered' = answered \/ (answered' = answered \cup {e} /\ Recorded(e))
      BY <1>1, <1>7 DEF SubmitInserts, Answered, Refused, PriorSubmission, Digest, Recorded
    <2>2. Grows
      BY <1>3, <2>1, StillGrows
    <2>3. TypeOk'
      BY <1>1, <1>3, <2>1, Zenon DEF FabricInv, TypeOk
    <2>4. \A f \in answered' : f \in answered \/ Recorded(f)'
      BY <1>1, <2>1, <2>2 DEF Grows
    <2> QED
      BY <1>3, <1>4, <1>5, <2>1, <2>2, <2>3, <2>4, Assembled
  <1> QED
    BY <1>6, <1>7

\* A drain reads rows of its own process that nothing has accepted, so their
\* payload is still there.
LEMMA DrainReadsOk ==
    ASSUME ConstantsOk, FabricInv, NEW c \in Connections, DrainReads(c)
    PROVE  FabricInv'
  <1>1. PICK batch \in Batches(Me(c)) :
           work' = [work EXCEPT ![c] =
                       Draining([i \in DOMAIN batch |-> deliveries[batch[i]].envelope], None)]
    BY Zenon DEF DrainReads
  <1>2. PICK n \in 1..Limit : batch \in [1..n -> PendingRows(Me(c))]
    BY DEF Batches
  <1> DEFINE read == [i \in DOMAIN batch |-> deliveries[batch[i]].envelope]
  <1>3. \A k \in PendingRows(Me(c)) :
           LET e == deliveries[k].envelope IN
           e \in Envelopes /\ e.recipient = Me(c) /\ Recorded(e)
    <2> TAKE k \in PendingRows(Me(c))
    <2>1. RowOk(k, deliveries[k]) /\ deliveries[k].occurrence = None
      BY DEF PendingRows, FabricInv
    <2>2. deliveries[k].envelope = deliveries[k].digest /\ deliveries[k].digest \in Envelopes
      BY <2>1 DEF RowOk
    <2>3. Identity(deliveries[k].digest) = k
      BY <2>1 DEF RowOk
    <2> QED
      BY <2>2, <2>3 DEF PendingRows, Recorded
  <1>4. n \in Nat /\ n >= 1 /\ DOMAIN batch = 1..n
    BY <1>2
  <1>5. \A i \in 1..n : read[i] \in Envelopes /\ read[i].recipient = Me(c) /\ Recorded(read[i])
    BY <1>2, <1>3, <1>4
  <1>6. read \in Seq(Envelopes) /\ Len(read) = n /\ read # <<>>
    BY <1>4, <1>5
  <1>7. UNCHANGED <<deliveries, hist, client, endpoints, answered, granted, grants>> /\ client[c] # None
    BY DEF DrainReads, tables, Calls, Auth
  <1>8. BatchOk(c, read)'
    BY <1>5, <1>6, <1>7 DEF BatchOk, Recorded, Me, Identity
  <1>9. work'[c] = Draining(read, None)
    BY <1>1 DEF FabricInv, TypeOk
  <1>10. CallOk(c)'
    BY <1>6, <1>7, <1>8, <1>9 DEF CallOk
  <1>11. \A d \in Connections \ {c} : work'[d] = work[d]
    BY <1>1 DEF FabricInv, TypeOk
  <1>12. TypeOk'
    BY <1>1, <1>7, Zenon DEF FabricInv, TypeOk
  <1>13. Grows
    BY <1>7, StillGrows
  <1> QED
    BY <1>7, <1>10, <1>11, <1>12, <1>13, Assembled

LEMMA SeqHead ==
    ASSUME NEW S, NEW s \in Seq(S), s # <<>>
    PROVE  Head(s) = s[1] /\ 1 \in 1..Len(s)
  OBVIOUS

LEMMA SeqAppend ==
    ASSUME NEW S, NEW s \in Seq(S), NEW e \in S
    PROVE  /\ Append(s, e) \in Seq(S) /\ Len(s) \in Nat
           /\ Len(Append(s, e)) = Len(s) + 1
           /\ \A i \in 1..Len(s) : Append(s, e)[i] = s[i]
           /\ Append(s, e)[Len(s) + 1] = e
  OBVIOUS

LEMMA SeqTail ==
    ASSUME NEW S, NEW s \in Seq(S), s # <<>>, Len(s) # 1
    PROVE  /\ Tail(s) \in Seq(S) /\ Tail(s) # <<>>
           /\ \A i \in 1..Len(Tail(s)) : i + 1 \in 1..Len(s) /\ Tail(s)[i] = s[i + 1]
  <1>1. PICK n : n = Len(s)
    OBVIOUS
  <1>2. n \in Nat /\ n # 0
    BY <1>1
  <1>3. n # 1
    BY <1>1
  <1>4. n >= 2
    BY <1>2, <1>3
  <1>5. Tail(s) \in Seq(S) /\ Len(Tail(s)) = n - 1
    BY <1>1
  <1>6. \A i \in 1..(n - 1) : Tail(s)[i] = s[i + 1]
    BY <1>1
  <1>7. Tail(s) # <<>>
    <2>1. n - 1 # 0
      BY <1>2, <1>4
    <2>2. Len(<<>>) = 0
      OBVIOUS
    <2> QED
      BY <1>5, <2>1, <2>2, Zenon
  <1>8. \A i \in 1..(n - 1) : i + 1 \in 1..n
    BY <1>2
  <1> QED
    BY <1>1, <1>5, <1>6, <1>7, <1>8

\* The recipient's Engine takes an envelope whose identity it does not know; one
\* it knows was taken with this very content, because an identity has one row.
LEMMA DeliverOk ==
    ASSUME ConstantsOk, FabricInv, NEW c \in Connections, Deliver(c)
    PROVE  FabricInv'
  <1>1. PICK batch : batch = work[c].batch
    OBVIOUS
  <1>2. client[c] # None /\ BatchOk(c, batch)
    BY <1>1, DrainCall DEF FabricInv, Deliver
  <1>3. PICK e \in Envelopes : e = Head(batch) /\ e = batch[1]
    BY <1>2, SeqHead DEF BatchOk
  <1>4. PICK p \in Processes : p = Me(c)
    BY <1>2 DEF FabricInv, ClientOk
  <1>5. e.recipient = p /\ Recorded(e)
    BY <1>2, <1>3, <1>4, SeqHead DEF BatchOk
  <1>6. UNCHANGED <<deliveries, client, endpoints, answered, granted, grants>>
    BY DEF Deliver, tables
  <1>7. HistOk(p) /\ hist[p] \in Seq(Envelopes)
    BY DEF FabricInv, HistOk
  <1>8. CASE work' = [work EXCEPT ![c] = Idle] /\ UNCHANGED hist
    <2>1. Grows
      BY <1>6, <1>8, StillGrows
    <2>2. TypeOk'
      BY <1>6, <1>8, Zenon DEF FabricInv, TypeOk
    <2>3. CallOk(c)'
      BY <1>8, EndedOk, Zenon DEF FabricInv
    <2>4. \A d \in Connections \ {c} : work'[d] = work[d]
      BY <1>8 DEF FabricInv, TypeOk
    <2> QED
      BY <1>6, <1>8, <2>1, <2>2, <2>3, <2>4, Assembled
  <1>9. CASE /\ \E i \in PriorOccurrences(p, e) : work' = [work EXCEPT ![c] = Draining(batch, i)]
             /\ UNCHANGED hist
    <2>1. PICK i \in PriorOccurrences(p, e) : work' = [work EXCEPT ![c] = Draining(batch, i)]
      BY <1>9, Zenon
    <2>2. i \in 1..Len(hist[p]) /\ i \in Nat /\ Identity(hist[p][i]) = Identity(e)
      BY <1>7 DEF PriorOccurrences, IngressIdentity, Identity
    <2>3. Recorded(hist[p][i])
      BY <1>7, <2>2 DEF HistOk
    <2>4. hist[p][i] = e
      BY <1>5, <2>2, <2>3 DEF Recorded
    <2>5. Grows
      BY <1>6, <1>9, StillGrows
    <2>6. Took(i, e)'
      BY <1>5, <1>9, <2>2, <2>4 DEF Took
    <2>7. BatchOk(c, batch)'
      BY <1>2, <1>6, <2>5, BatchKept
    <2>8. work'[c] = Draining(batch, i)
      BY <2>1 DEF FabricInv, TypeOk
    <2>9. CallOk(c)'
      BY <1>2, <1>3, <1>6, <2>2, <2>6, <2>7, <2>8 DEF CallOk, BatchOk
    <2>10. \A d \in Connections \ {c} : work'[d] = work[d]
      BY <2>1 DEF FabricInv, TypeOk
    <2>11. TypeOk'
      BY <1>6, <1>9, <2>1, Zenon DEF FabricInv, TypeOk
    <2> QED
      BY <1>6, <1>9, <2>5, <2>9, <2>10, <2>11, Assembled
  <1>10. CASE /\ PriorOccurrences(p, e) = {}
              /\ hist' = [hist EXCEPT ![p] = Append(@, e)]
              /\ work' = [work EXCEPT ![c] = Draining(batch, Len(hist[p]) + 1)]
    <2>1. /\ hist'[p] = Append(hist[p], e)
          /\ \A q \in Processes \ {p} : hist'[q] = hist[q]
      BY <1>10 DEF FabricInv, TypeOk
    <2>2. /\ hist'[p] \in Seq(Envelopes) /\ Len(hist[p]) \in Nat
          /\ Len(hist'[p]) = Len(hist[p]) + 1
          /\ \A i \in 1..Len(hist[p]) : hist'[p][i] = hist[p][i]
          /\ hist'[p][Len(hist[p]) + 1] = e
      BY <1>7, <2>1, SeqAppend
    <2>3. \A i \in 1..Len(hist'[p]) : i \in 1..Len(hist[p]) \/ i = Len(hist[p]) + 1
      BY <2>2
    <2>4. \A f \in Envelopes : Recorded(f) => Recorded(f)'
      BY <1>6 DEF Recorded
    <2>5. \A f \in Envelopes, n \in Nat : Took(n, f) => Took(n, f)'
      <3> TAKE f \in Envelopes, n \in Nat
      <3>1. CASE f.recipient = p
        BY <2>2, <3>1 DEF Took
      <3>2. CASE f.recipient # p
        BY <2>1, <3>2, IdentityOk DEF Took
      <3> QED
        BY <3>1, <3>2
    <2>6. Grows
      BY <1>6, <2>4, <2>5 DEF Grows
    <2>7. \A i \in 1..Len(hist[p]) : hist[p][i] \in Envelopes /\ Identity(hist[p][i]) # Identity(e)
      BY <1>7, <1>10 DEF PriorOccurrences, IngressIdentity, Identity
    <2>8. \A i \in 1..Len(hist'[p]) : hist'[p][i].recipient = p /\ Recorded(hist'[p][i])
      BY <1>5, <1>7, <2>2, <2>3 DEF HistOk
    <2>9. \A i, j \in 1..Len(hist'[p]) : Identity(hist'[p][i]) = Identity(hist'[p][j]) => i = j
      BY <1>7, <2>2, <2>3, <2>7 DEF HistOk
    <2>10. HistOk(p)'
      BY <1>6, <2>2, <2>8, <2>9, Zenon DEF HistOk, Recorded, Identity
    <2>11. PICK n \in Nat : n = Len(hist[p]) + 1
      BY <2>2
    <2>12. Took(n, e)'
      BY <1>5, <2>2, <2>11 DEF Took
    <2>13. BatchOk(c, batch)'
      BY <1>2, <1>6, <2>6, BatchKept
    <2>14. work'[c] = Draining(batch, n)
      BY <1>10, <2>11 DEF FabricInv, TypeOk
    <2>15. CallOk(c)'
      BY <1>2, <1>3, <1>6, <2>12, <2>13, <2>14 DEF CallOk, BatchOk
    <2>16. \A d \in Connections \ {c} : work'[d] = work[d]
      BY <1>10 DEF FabricInv, TypeOk
    <2>17. TypeOk'
      BY <1>6, <1>10, <2>1, <2>2, Zenon DEF FabricInv, TypeOk
    <2> QED
      BY <1>6, <2>1, <2>6, <2>10, <2>15, <2>16, <2>17, Assembled
  <1> QED
    BY <1>1, <1>3, <1>4, <1>8, <1>9, <1>10 DEF Deliver

\* The receipt names the occurrence that took this row's envelope; the drain
\* goes on with the rest of its batch.
LEMMA AcknowledgeOk ==
    ASSUME ConstantsOk, FabricInv, NEW c \in Connections, Acknowledge(c)
    PROVE  FabricInv'
  <1>1. PICK batch, n : batch = work[c].batch /\ n = work[c].occurrence
    OBVIOUS
  <1>2. client[c] # None /\ BatchOk(c, batch) /\ n # None /\ n \in Nat /\ Took(n, batch[1])
    BY <1>1, DrainCall DEF FabricInv, Acknowledge
  <1>3. PICK e \in Envelopes : e = Head(batch) /\ e = batch[1]
    BY <1>2, SeqHead DEF BatchOk
  <1>4. Recorded(e) /\ Took(n, e)
    BY <1>2, <1>3, SeqHead DEF BatchOk
  <1>5. PICK k \in Identities : k = Identity(e)
    BY IdentityOk
  <1>6. RowOk(k, deliveries[k]) /\ deliveries[k].digest = e
    BY <1>4, <1>5 DEF Recorded, NoRow, ConstantsOk, FabricInv
  <1>7. UNCHANGED <<hist, client, endpoints, answered, granted, grants>>
    BY DEF Acknowledge, tables
  <1>8. \/ UNCHANGED deliveries
        \/ deliveries' = [deliveries EXCEPT ![k] = AcceptedBy(deliveries[k], n)]
    BY <1>1, <1>3, <1>5 DEF Acknowledge
  <1>9. \/ work' = [work EXCEPT ![c] = Idle]
        \/ work' = [work EXCEPT ![c] = Draining(Tail(batch), None)] /\ Len(batch) # 1
    BY <1>1 DEF Acknowledge
  <1>10. /\ \A j \in Identities \ {k} : deliveries'[j] = deliveries[j]
         /\ deliveries'[k] = deliveries[k] \/ deliveries'[k] = AcceptedBy(deliveries[k], n)
    BY <1>8 DEF FabricInv, TypeOk
  <1>11. /\ deliveries'[k].digest = e
         /\ deliveries'[k] = deliveries[k] \/ RowOk(k, deliveries'[k])
    <2>1. CASE deliveries'[k] = deliveries[k]
      BY <1>6, <2>1
    <2>2. CASE deliveries'[k] = [deliveries[k] EXCEPT !.occurrence = n]
      BY <1>2, <1>4, <1>6, <2>2 DEF RowOk
    <2> QED
      BY <1>10, <2>1, <2>2 DEF AcceptedBy
  <1>12. \A f \in Envelopes : Recorded(f) => Recorded(f)'
    <2> SUFFICES ASSUME NEW f \in Envelopes, Recorded(f) PROVE deliveries'[Identity(f)].digest = f
      BY DEF Recorded, Identity
    <2> QED
      BY <1>6, <1>10, <1>11, IdentityOk DEF Recorded
  <1>13. Grows
    BY <1>7, <1>12 DEF Grows, Took
  <1>14. deliveries'[k] = deliveries[k] \/ RowOk(k, deliveries[k])'
    BY <1>7, <1>11 DEF RowOk, Granted, Took
  <1>15. CallOk(c)'
    <2>1. CASE work' = [work EXCEPT ![c] = Idle]
      BY <2>1, EndedOk, Zenon DEF FabricInv
    <2>2. CASE work' = [work EXCEPT ![c] = Draining(Tail(batch), None)] /\ Len(batch) # 1
      <3>1. PICK rest : rest = Tail(batch)
        BY Zenon
      <3>2. /\ rest \in Seq(Envelopes) /\ rest # <<>>
            /\ \A i \in 1..Len(rest) : i + 1 \in 1..Len(batch) /\ rest[i] = batch[i + 1]
        BY <1>2, <2>2, <3>1, SeqTail DEF BatchOk
      <3>3. BatchOk(c, rest)
        BY <1>2, <3>2 DEF BatchOk
      <3>4. BatchOk(c, rest)'
        BY <1>7, <1>13, <3>3, BatchKept
      <3>5. work'[c] = Draining(rest, None)
        BY <2>2, <3>1 DEF FabricInv, TypeOk
      <3> QED
        BY <1>2, <1>7, <3>2, <3>4, <3>5, Zenon DEF CallOk
    <2> QED
      BY <1>9, <2>1, <2>2
  <1>16. \A d \in Connections \ {c} : work'[d] = work[d]
    BY <1>9 DEF FabricInv, TypeOk
  <1>17. TypeOk'
    BY <1>7, <1>8, <1>9 DEF FabricInv, TypeOk
  <1> QED
    BY <1>7, <1>10, <1>13, <1>14, <1>15, <1>16, <1>17, Assembled

\* Pruning drops payloads of accepted rows only.
LEMMA PruneAcceptedOk ==
    ASSUME ConstantsOk, FabricInv, NEW c \in Connections, PruneAccepted(c)
    PROVE  FabricInv'
  <1>1. UNCHANGED <<hist, client, work, endpoints, answered, granted, grants>>
    BY DEF PruneAccepted, tables
  <1>2. PICK n : deliveries' = [k \in Identities |->
                                   IF k \in Prunable(Me(c), n)
                                   THEN [deliveries[k] EXCEPT !.envelope = None]
                                   ELSE deliveries[k]]
    BY DEF PruneAccepted
  <1>3. \A k \in Identities :
           \/ deliveries'[k] = deliveries[k]
           \/ /\ RowOk(k, deliveries[k]) /\ deliveries[k].occurrence # None
              /\ deliveries'[k] = [deliveries[k] EXCEPT !.envelope = None]
    <2> TAKE k \in Identities
    <2>1. CASE k \in Prunable(Me(c), n)
      <3>1. deliveries[k] # NoRow /\ deliveries[k].occurrence \in 1..n
        BY <2>1 DEF Prunable
      <3>2. deliveries[k].occurrence # None
        BY <3>1 DEF ConstantsOk
      <3> QED
        BY <1>2, <2>1, <3>1, <3>2 DEF FabricInv
    <2> QED
      BY <1>2, <2>1
  <1>4. \A k \in Identities :
           /\ deliveries'[k].digest = deliveries[k].digest
           /\ deliveries'[k] = deliveries[k] \/ RowOk(k, deliveries'[k])
    BY <1>3, Zenon DEF RowOk
  <1>5. \A f \in Envelopes : Recorded(f) => Recorded(f)'
    <2> SUFFICES ASSUME NEW f \in Envelopes, Recorded(f) PROVE deliveries'[Identity(f)].digest = f
      BY DEF Recorded, Identity
    <2> QED
      BY <1>4, IdentityOk DEF Recorded
  <1>6. Grows
    BY <1>1, <1>5 DEF Grows, Took
  <1>7. \A k \in Identities : deliveries'[k] = deliveries[k] \/ RowOk(k, deliveries[k])'
    BY <1>1, <1>4, Zenon DEF RowOk, Granted, Took
  <1>8. TypeOk'
    BY <1>1, <1>2 DEF FabricInv, TypeOk
  <1> QED
    BY <1>1, <1>6, <1>7, <1>8, Assembled

-----------------------------------------------------------------------------
(* The theorems.                                                           *)

LEMMA InitOk == ASSUME Init PROVE FabricInv
  <1>1. TypeOk
    BY DEF Init, TypeOk
  <1>2. \A p \in Processes : HistOk(p)
    BY DEF Init, HistOk
  <1>3. \A c \in Connections : CallOk(c) /\ ClientOk(c)
    BY DEF Init, CallOk, ClientOk
  <1> QED
    BY <1>1, <1>2, <1>3 DEF FabricInv, Init

LEMMA NextOk == ASSUME ConstantsOk, FabricInv, [Next]_vars PROVE FabricInv'
  <1>1. ASSUME UNCHANGED vars PROVE FabricInv'
    BY <1>1, AddressOk DEF vars, FabricInv, TypeOk
  <1>2. ASSUME Setup PROVE FabricInv'
    <2>1. CASE EnsureFabricSchema
      BY <2>1, AddressOk DEF EnsureFabricSchema, tables, FabricInv, TypeOk
    <2>2. ASSUME NEW p \in Processes, NEW k \in Credentials, RegisterProcess(p, k) PROVE FabricInv'
      BY <2>2, AddressOk DEF RegisterProcess, FabricInv, TypeOk
    <2>3. ASSUME NEW p \in Processes, NEW k \in Credentials, NEW c \in Connections, Connect(c, p, k)
          PROVE  FabricInv'
      BY <2>3, ConnectOk
    <2> QED
      BY <1>2, <2>1, <2>2, <2>3 DEF Setup
  <1>3. ASSUME NEW c \in Connections, Address(c) PROVE FabricInv'
    <2>1. ASSUME NEW s \in Sources, ExposeSource(c, s) PROVE FabricInv'
      BY <2>1, AddressOk DEF ExposeSource, FabricInv, TypeOk
    <2>2. ASSUME NEW s \in Sources, NEW p \in Processes, GrantDelivery(c, p, s) PROVE FabricInv'
      BY <2>2, AddressOk DEF GrantDelivery, FabricInv, TypeOk
    <2>3. ASSUME NEW s \in Sources, NEW p \in Processes, Revoke(c, p, s) PROVE FabricInv'
      BY <2>3, AddressOk DEF Revoke, FabricInv, TypeOk
    <2> QED
      BY <1>3, <2>1, <2>2, <2>3 DEF Address
  <1>4. ASSUME NEW c \in Connections, Advertise(c) PROVE FabricInv'
    <2>1. ASSUME NEW s, NEW v, NEW caps, OfferService(c, s, v, caps) PROVE FabricInv'
      BY <2>1, AddressOk DEF OfferService, FabricInv, TypeOk
    <2> QED
      BY <1>4, <2>1, DiscoverOk DEF Advertise
  <1>5. ASSUME NEW c \in Connections, Step(c) PROVE FabricInv'
    BY <1>5, SubmitInsertsOk, DrainReadsOk, DeliverOk, AcknowledgeOk DEF Step
  <1> QED
    BY <1>1, <1>2, <1>3, <1>4, <1>5, PruneAcceptedOk, CrashOk, SubmitReadsOk DEF Next

\* The rows, histories and connections agree in every reachable state.
LEMMA FabricInvariant == ASSUME ConstantsOk PROVE Spec => []FabricInv
  <1>1. Init => FabricInv
    BY InitOk
  <1>2. FabricInv /\ [Next]_vars => FabricInv'
    BY NextOk
  <1> QED
    BY <1>1, <1>2, PTL DEF Spec

LEMMA InvMeans == ASSUME ConstantsOk, FabricInv PROVE MailStands
  <1>1. DeliveredOnce
    BY DEF DeliveredOnce, FabricInv, HistOk, TypeOk
  <1>2. \A k \in Rows : RowOk(k, deliveries[k]) /\ deliveries[k].digest.recipient \in Processes
    BY IdentityOk DEF Rows, FabricInv, RowOk
  <1>3. \A p \in Processes : DOMAIN hist[p] = 1..Len(hist[p])
    BY DEF FabricInv, TypeOk
  <1>4. AcceptedByItsOccurrence
    BY <1>2, <1>3, Zenon DEF AcceptedByItsOccurrence, RowOk, Took
  <1>5. AnsweredIsRecorded
    BY DEF AnsweredIsRecorded, FabricInv, Recorded, Digest
  <1>6. PrunedIsDelivered
    <2> SUFFICES ASSUME NEW k \in Rows, deliveries[k].envelope = None
                 PROVE  \E i \in DOMAIN hist[deliveries[k].digest.recipient] :
                           hist[deliveries[k].digest.recipient][i] = deliveries[k].digest
      BY DEF PrunedIsDelivered
    <2>1. deliveries[k].envelope # deliveries[k].digest
      BY <1>2, Zenon DEF RowOk, ConstantsOk
    <2>2. Took(deliveries[k].occurrence, deliveries[k].digest)
      BY <1>2, <2>1, Zenon DEF RowOk
    <2> QED
      BY <1>2, <1>3, <2>2 DEF Took
  <1>7. SubmittedWasGranted
    BY <1>2, Zenon DEF SubmittedWasGranted, RowOk, Granted
  <1>8. DiscoveredWasGranted
    BY DEF DiscoveredWasGranted, FabricInv, ClientOk
  <1> QED
    BY <1>1, <1>4, <1>5, <1>6, <1>7, <1>8 DEF MailStands

\* For any processes, senders, connections, batch sizes and crashes, whatever
\* the interleaving of submits, drains, prunings, grants and revocations: a
\* delivery is taken once, its receipt is true, and its sender had a grant.
THEOREM MailStandsAlways == ASSUME ConstantsOk PROVE Spec => []MailStands
  <1>1. FabricInv => MailStands
    BY InvMeans
  <1> QED
    BY <1>1, FabricInvariant, PTL

\* Only three steps write a row: an insert where there was none, a receipt
\* where there was none, and a pruned payload.
LEMMA WhoWrites ==
    ASSUME [Next]_vars
    PROVE  \/ UNCHANGED deliveries
           \/ \E c \in Connections : SubmitInserts(c) \/ Acknowledge(c) \/ PruneAccepted(c)
  <1>1. ASSUME Setup PROVE UNCHANGED deliveries
    BY <1>1 DEF Setup, EnsureFabricSchema, RegisterProcess, Connect
  <1>2. ASSUME NEW c \in Connections, Address(c) PROVE UNCHANGED deliveries
    BY <1>2 DEF Address, ExposeSource, GrantDelivery, Revoke
  <1>3. ASSUME NEW c \in Connections, Advertise(c) PROVE UNCHANGED deliveries
    BY <1>3, Zenon DEF Advertise, OfferService, Discover
  <1>4. ASSUME NEW c \in Connections, Crash(c) PROVE UNCHANGED deliveries
    BY <1>4 DEF Crash
  <1>5. ASSUME NEW c \in Connections, NEW e \in Envelopes, SubmitReads(c, e) PROVE UNCHANGED deliveries
    BY <1>5 DEF SubmitReads
  <1>6. ASSUME NEW c \in Connections, DrainReads(c) \/ Deliver(c) PROVE UNCHANGED deliveries
    BY <1>6 DEF DrainReads, Deliver
  <1> QED
    BY <1>1, <1>2, <1>3, <1>4, <1>5, <1>6 DEF Next, Step, vars

LEMMA NextKeeps == ASSUME ConstantsOk, FabricInv, [Next]_vars PROVE RecordsKept
  <1> DEFINE Kept(row, new) ==
          /\ new.digest = row.digest
          /\ row.occurrence # None => new.occurrence = row.occurrence
  <1>1. ASSUME NEW c \in Connections, SubmitInserts(c), NEW k \in Rows
        PROVE  Kept(deliveries[k], deliveries'[k])
    BY <1>1, Zenon DEF SubmitInserts, Rows, FabricInv, TypeOk
  <1>2. ASSUME NEW c \in Connections, Acknowledge(c), NEW k \in Rows
        PROVE  Kept(deliveries[k], deliveries'[k])
    <2>1. PICK row, n : row = deliveries[k] /\ n = work[c].occurrence /\ RowOk(k, row)
      BY DEF Rows, FabricInv
    <2>2. deliveries'[k] = row \/ deliveries'[k] = AcceptedBy(row, n)
      BY <1>2, <2>1 DEF Acknowledge, Rows, FabricInv, TypeOk
    <2> QED
      BY <2>1, <2>2 DEF AcceptedBy, RowOk
  <1>3. ASSUME NEW c \in Connections, PruneAccepted(c), NEW k \in Rows
        PROVE  Kept(deliveries[k], deliveries'[k])
    <2>1. PICK row : row = deliveries[k] /\ RowOk(k, row)
      BY DEF Rows, FabricInv
    <2>2. deliveries'[k] = row \/ deliveries'[k] = [row EXCEPT !.envelope = None]
      BY <1>3, <2>1 DEF PruneAccepted, Rows
    <2> QED
      BY <2>1, <2>2 DEF RowOk
  <1> QED
    BY <1>1, <1>2, <1>3, WhoWrites DEF RecordsKept

\* Neither the content of a delivery nor its receipt changes once recorded,
\* whichever submits, acknowledgements and prunings race
\* (INSERT ... ON CONFLICT DO NOTHING, acknowledge).
THEOREM RecordsAlwaysKept == ASSUME ConstantsOk PROVE Spec => RecordsStay
  <1>1. FabricInv /\ [Next]_vars => [RecordsKept]_vars
    BY NextKeeps
  <1> QED
    BY <1>1, FabricInvariant, PTL DEF Spec, RecordsStay

\* The deployment that the runs explore, with its senders' traffic to one
\* recipient, is an instance of the general case.
THEOREM DeployedMailStands ==
    ASSUME ConstantsOk, NEW r \in Processes, NEW key \in Credentials, NEW inboxes
    PROVE  Deployed(r, key) /\ [][Traffic(r, key, inboxes)]_vars =>
              []MailStands /\ RecordsStay
  <1>1. Deployed(r, key) => FabricInv
    <2> SUFFICES ASSUME Deployed(r, key) PROVE FabricInv
      OBVIOUS
    <2>1. TypeOk
      BY DEF Deployed, TypeOk
    <2>2. \A p \in Processes : HistOk(p)
      BY DEF Deployed, HistOk
    <2>3. \A c \in Connections : CallOk(c) /\ ClientOk(c)
      BY DEF Deployed, CallOk, ClientOk
    <2> QED
      BY <2>1, <2>2, <2>3 DEF FabricInv, Deployed
  <1>2. [Traffic(r, key, inboxes)]_vars => [Next]_vars
    <2>1. ASSUME NEW c \in Connections, Reconnect(c, r, key, inboxes) PROVE Next
      <3>1. PICK p \in Processes : Connect(c, p, key)
        BY <2>1 DEF Reconnect
      <3> QED
        BY <3>1 DEF Next, Setup
    <2>2. ASSUME NEW c \in Connections, NEW p \in Processes, NEW s \in Sources, Revoke(c, p, s)
          PROVE  Next
      BY <2>2 DEF Next, Address
    <2> QED
      BY <2>1, <2>2 DEF Traffic, Next
  <1>3. FabricInv /\ [Next]_vars => FabricInv'
    BY NextOk
  <1>4. FabricInv => MailStands
    BY InvMeans
  <1>5. FabricInv /\ [Next]_vars => [RecordsKept]_vars
    BY NextKeeps
  <1> QED
    BY <1>1, <1>2, <1>3, <1>4, <1>5, PTL DEF RecordsStay

=============================================================================
