-------------------------- MODULE TerritoryCustody --------------------------
(***************************************************************************)
(* Durable host custody of retained Motus territories                      *)
(* (petrus/agenticus/attachment/_retention.py, SqliteTerritoryCustody).    *)
(*                                                                         *)
(* The ledger is one SQLite table with one writer process.  Its threads    *)
(* run release, reclaim and retire concurrently: each writes an intent     *)
(* under the lock, crosses to the attachment or the provider without it,   *)
(* and writes the outcome under the lock again, so every method is split   *)
(* at those crossings.  The process may die between any two of them; rows  *)
(* and leases survive, attachments and threads do not.                     *)
(*                                                                         *)
(* An attachment is reduced to what custody sees: the lease of its         *)
(* binding, its epoch and its state.  Episode and attachment ids are fresh *)
(* for every attachment, which reclaim requires.                           *)
(***************************************************************************)
EXTENDS Integers, TLAPS

CONSTANTS
    None,             \* no owner and no custody id
    Owners, Threads,
    MaxCustodies,     \* custody ids, in the order recover reads them
    MaxLeases,        \* leases the host opens
    MaxAttachments,   \* attachments the host opens or reclaims
    MaxGenerations,   \* releases under one custody id
    MaxCrashes,       \* process deaths
    MaxCorruptions,   \* rows damaged on disk
    RecoverAtAnyTime  \* whether the host calls recover while it serves

VARIABLES
    row,         \* [CustodyIds -> custody row]
    lease,       \* [1..MaxLeases -> state at the provider]
    attachment,  \* [1..MaxAttachments -> attachment object of a host process]
    job,         \* [Threads -> method in progress]
    served,      \* the host has called the ledger since its process started
    crashes, corruptions

vars == <<row, lease, attachment, job, served, crashes, corruptions>>

CustodyIds == 1 .. MaxCustodies
Leases == 1 .. MaxLeases
Attachments == 1 .. MaxAttachments

-----------------------------------------------------------------------------

NoRow == [phase |-> "none", owner |-> None, gen |-> 0, source |-> 0, lease |-> 0,
          expired |-> FALSE, archive |-> 0, target |-> 0, damage |-> "none"]
Binding(state, l, epoch) == [state |-> state, lease |-> l, epoch |-> epoch]
NoAttachment == Binding("unborn", 0, 0)

Phased(r, phase) == [r EXCEPT !.phase = phase]
Became(a, state) == [attachment[a] EXCEPT !.state = state]

Job(op, pc, id, att, gen, l) == [op |-> op, pc |-> pc, id |-> id, att |-> att, gen |-> gen, lease |-> l]
NoJob == Job("none", "idle", 0, 0, 0, 0)

Init ==
    /\ row = [k \in CustodyIds |-> NoRow]
    /\ lease = [l \in Leases |-> "absent"]
    /\ attachment = [a \in Attachments |-> NoAttachment]
    /\ job = [t \in Threads |-> NoJob]
    /\ served = FALSE
    /\ crashes = 0 /\ corruptions = 0

\* The next attachment object the process constructs.
Unborn == {a \in Attachments : attachment[a].state = "unborn"}
IsNext(a) == a \in Unborn /\ \A b \in Unborn : a <= b

Idle(t) == job[t].op = "none"
Moved(j, pc) == [j EXCEPT !.pc = pc]
SetPc(t, pc) == job' = [job EXCEPT ![t] = Moved(job[t], pc)]
EndJob(t) == job' = [job EXCEPT ![t] = NoJob]
SetPhase(k, phase) == row' = [row EXCEPT ![k] = Phased(row[k], phase)]
SetState(a, state) == attachment' = [attachment EXCEPT ![a] = Became(a, state)]

\* _decode accepts the row.
Readable(k) == row[k].damage = "none"

\* one_live_territory_operation: the partial unique index.
OperationFree(k, l) == \A j \in CustodyIds \ {k} : row[j].lease = l => row[j].phase = "retired"

-----------------------------------------------------------------------------
(* The host's attachments and the provider                                 *)

\* MotusAttachmentBinding.open under a fresh operation id.
OpenAttachment(a, l) ==
    /\ IsNext(a) /\ lease[l] = "absent"
    /\ \A m \in Leases : m < l => lease[m] # "absent"
    /\ lease' = [lease EXCEPT ![l] = "ready"]
    /\ attachment' = [attachment EXCEPT ![a] = Binding("open", l, 1)]
    /\ UNCHANGED <<row, job, served, crashes, corruptions>>

\* EpisodeAttachment.settle or retry_settlement instead of a release: the binding
\* destroys its lease.
SettleAttachment(a) ==
    /\ attachment[a].state \in {"open", "uncertain"}
    /\ \/ /\ lease' = [lease EXCEPT ![attachment[a].lease] = "destroyed"]
          /\ SetState(a, "settled")
       \/ SetState(a, "uncertain") /\ UNCHANGED lease
    /\ UNCHANGED <<row, job, served, crashes, corruptions>>

\* A territory dies by itself: its lookup is no longer ready.
LoseLease(l) ==
    /\ lease[l] = "ready"
    /\ lease' = [lease EXCEPT ![l] = "terminal"]
    /\ UNCHANGED <<row, attachment, job, served, crashes, corruptions>>

-----------------------------------------------------------------------------
(* Release                                                                 *)

Releasing(o, gen, a, l) ==
    [phase |-> "releasing", owner |-> o, gen |-> gen, source |-> a, lease |-> l,
     expired |-> FALSE, archive |-> 0, target |-> 0, damage |-> "none"]

\* begin_release: transfer intent is durable before the attachment is closed.
BeginRelease(t, k, o, a) ==
    LET r == row[k]
        l == attachment[a].lease
        again == /\ r.phase = "attached" /\ r.owner = o
                 /\ r.target = a /\ r.lease = l
    IN
    /\ Idle(t)
    /\ attachment[a].state \in {"open", "settled", "uncertain"}
    /\ r.phase = "none" \/ (Readable(k) /\ again)
    /\ r.gen < MaxGenerations
    /\ OperationFree(k, l)
    /\ row' = [row EXCEPT ![k] = Releasing(o, r.gen + 1, a, l)]
    /\ job' = [job EXCEPT ![t] = Job("release", "accept", k, a, r.gen + 1, l)]
    /\ served' = TRUE
    /\ UNCHANGED <<lease, attachment, crashes, corruptions>>

\* _release_to fails before custody is asked: it is settled, or it does not drain.
FailRelease(t) ==
    LET a == job[t].att IN
    /\ job[t].op = "release"
    /\ SetState(a, IF attachment[a].state = "open" THEN "uncertain" ELSE attachment[a].state)
    /\ EndJob(t)
    /\ UNCHANGED <<row, lease, served, crashes, corruptions>>

Retained(r, a) == [r EXCEPT !.phase = "retained", !.archive = a]

\* _accept_release: the binding gives up its authority, then the row is retained
\* if it is still this generation's release and has not expired.
AcceptRelease(t) ==
    LET j == job[t]
        r == row[j.id]
        releasing == r.phase = "releasing"
        accepted == releasing /\ r.gen = j.gen /\ ~r.expired
    IN
    /\ j.op = "release" /\ attachment[j.att].state = "open"
    /\ \/ /\ accepted
          /\ row' = [row EXCEPT ![j.id] = Retained(r, j.att)]
          /\ SetState(j.att, "released")
       \/ /\ ~accepted
          /\ SetPhase(j.id, IF releasing /\ r.expired THEN "retiring" ELSE r.phase)
          /\ SetState(j.att, "lost")
    /\ EndJob(t)
    /\ UNCHANGED <<lease, served, crashes, corruptions>>

-----------------------------------------------------------------------------
(* Reclaim                                                                 *)

Doomed(r) == [r EXCEPT !.phase = "retiring", !.archive = 0, !.target = 0,
                       !.expired = TRUE, !.damage = "none"]

\* _salvage_corrupt: a row whose identity still reads is to be destroyed; one
\* whose identity does not is set aside.
Salvaged(r) == IF r.damage = "identity" THEN Phased(r, "quarantined") ELSE Doomed(r)

Claimed(r, a) == [r EXCEPT !.phase = "claiming", !.target = a]

\* A mutant: a row that waits for its destruction can still be reclaimed.
ClaimableFenced(r, o) == r.owner = o /\ r.phase \in {"retained", "retiring"}

Claimable(r, o) == r.owner = o /\ r.phase = "retained"

\* reclaim up to the durable claim by the next attachment.
BeginReclaim(t, k, o, a) ==
    LET r == row[k]
        usable == ~r.expired /\ lease[r.lease] = "ready"
    IN
    /\ Idle(t) /\ r.phase # "none"
    /\ served' = TRUE
    /\ \/ /\ ~Readable(k)
          /\ row' = [row EXCEPT ![k] = IF OperationFree(k, r.lease) THEN Salvaged(r) ELSE r]
          /\ UNCHANGED <<job, attachment>>
       \/ /\ Readable(k) /\ Claimable(r, o) /\ ~usable
          /\ SetPhase(k, "retiring")
          /\ UNCHANGED <<job, attachment>>
       \/ /\ Readable(k) /\ Claimable(r, o) /\ usable /\ IsNext(a)
          /\ row' = [row EXCEPT ![k] = Claimed(r, a)]
          /\ attachment' = [attachment EXCEPT ![a] =
                               Binding("claimed", r.lease, attachment[r.source].epoch + 1)]
          /\ job' = [job EXCEPT ![t] = Job("reclaim", "attach", k, a, r.gen, r.lease)]
    /\ UNCHANGED <<lease, crashes, corruptions>>

\* _reclaim_exact attaches the exact lease and the attachment is constructed;
\* the caller does not have it yet.
ReclaimAttach(t) ==
    LET j == job[t] IN
    /\ j.op = "reclaim" /\ j.pc = "attach" /\ lease[j.lease] = "ready"
    /\ SetPc(t, "commit")
    /\ UNCHANGED <<row, lease, attachment, served, crashes, corruptions>>

\* The lookup or the attach fails: the claim becomes an obligation to destroy,
\* unless someone else has already fenced the row.
ReclaimFails(t) ==
    LET j == job[t] IN
    /\ j.op = "reclaim" /\ j.pc = "attach"
    /\ SetPhase(j.id, IF row[j.id].phase = "claiming" THEN "retiring" ELSE row[j.id].phase)
    /\ SetState(j.att, "dead")
    /\ EndJob(t)
    /\ UNCHANGED <<lease, served, crashes, corruptions>>

\* The attachment is returned only if the claim still stands.
ReclaimCommit(t) ==
    LET j == job[t]
        stands == row[j.id].phase = "claiming"
    IN
    /\ j.op = "reclaim" /\ j.pc = "commit"
    /\ SetPhase(j.id, IF stands THEN "attached" ELSE row[j.id].phase)
    /\ SetState(j.att, IF stands THEN "open" ELSE "dead")
    /\ EndJob(t)
    /\ UNCHANGED <<lease, served, crashes, corruptions>>

-----------------------------------------------------------------------------
(* Retire and recover                                                      *)

Retirable(r, o) == r.owner = o /\ r.phase \in {"retained", "retiring"}

\* retire up to the provider's destroy.  A retired row answers at once.
BeginRetire(t, k, o) ==
    LET r == row[k] IN
    /\ Idle(t) /\ Readable(k) /\ Retirable(r, o)
    /\ SetPhase(k, "retiring")
    /\ job' = [job EXCEPT ![t] = Job("retire", "destroy", k, 0, 0, r.lease)]
    /\ served' = TRUE
    /\ UNCHANGED <<lease, attachment, crashes, corruptions>>

\* A mutant: whatever the provider answers, the row is retired.
RetireUnverified(t) ==
    LET j == job[t] IN
    /\ j.op = "retire" /\ j.pc = "destroy"
    /\ lease' \in {lease, [lease EXCEPT ![j.lease] = "destroyed"]}
    /\ SetPc(t, "commit")
    /\ UNCHANGED <<row, attachment, served, crashes, corruptions>>

\* provider.destroy: verified cleanup means the exact lease is gone.
RetireDestroy(t) ==
    LET j == job[t] IN
    /\ j.op = "retire" /\ j.pc = "destroy"
    /\ \/ /\ lease' = [lease EXCEPT ![j.lease] = "destroyed"]
          /\ SetPc(t, "commit")
       \/ /\ lease' \in {lease, [lease EXCEPT ![j.lease] = "destroyed"]}
          /\ EndJob(t)
    /\ UNCHANGED <<row, attachment, served, crashes, corruptions>>

Retired(r) == [r EXCEPT !.phase = "retired", !.archive = 0]

RetireCommit(t) ==
    LET j == job[t] IN
    /\ j.op = "retire" /\ j.pc = "commit"
    /\ row' = [row EXCEPT ![j.id] = IF @.phase = "retiring" THEN Retired(@) ELSE @]
    /\ EndJob(t)
    /\ UNCHANGED <<lease, attachment, served, crashes, corruptions>>

\* recover fences every ambiguous row and every expired retained row, then
\* salvages damaged rows in order and gives up at the first that it quarantines
\* or that the unique index refuses.
Fenced(r) == \/ r.phase \in {"releasing", "claiming", "attached"}
             \/ r.phase = "retained" /\ r.expired

Refused(k) ==
    \E j \in CustodyIds \ {k} :
       row[j].lease = row[k].lease /\ (row[j].phase # "retired" \/ (j < k /\ ~Readable(j)))

Reached(k) == \A j \in CustodyIds : j < k => row[j].damage # "identity" /\ (Readable(j) \/ ~Refused(j))

Recovered(k) ==
    IF ~Readable(k) /\ Reached(k) /\ ~Refused(k) THEN Salvaged(row[k])
    ELSE IF Fenced(row[k]) THEN Phased(row[k], "retiring")
    ELSE row[k]

Recover ==
    /\ RecoverAtAnyTime \/ ~served
    /\ row' = [k \in CustodyIds |-> Recovered(k)]
    /\ served' = TRUE
    /\ UNCHANGED <<lease, attachment, job, crashes, corruptions>>

-----------------------------------------------------------------------------
(* Time, damage and process death                                          *)

Overdue(r) == [r EXCEPT !.expired = TRUE]
Damaged(r, damage) == [r EXCEPT !.damage = damage]

Expire(k) ==
    /\ row[k].phase \in {"releasing", "retained"} /\ ~row[k].expired
    /\ row' = [row EXCEPT ![k] = Overdue(row[k])]
    /\ UNCHANGED <<lease, attachment, job, served, crashes, corruptions>>

Corrupt(k, damage) ==
    /\ corruptions < MaxCorruptions
    /\ row[k].phase # "none" /\ Readable(k)
    /\ row' = [row EXCEPT ![k] = Damaged(row[k], damage)]
    /\ corruptions' = corruptions + 1
    /\ UNCHANGED <<lease, attachment, job, served, crashes>>

\* The writer fence goes with the process; the next process opens the ledger.
Crash ==
    /\ crashes < MaxCrashes
    /\ crashes' = crashes + 1
    /\ job' = [t \in Threads |-> NoJob]
    /\ attachment' = [a \in Attachments |->
                         IF attachment[a].state = "unborn" THEN attachment[a]
                         ELSE Became(a, "dead")]
    /\ served' = FALSE
    /\ UNCHANGED <<row, lease, corruptions>>

-----------------------------------------------------------------------------

Next ==
    \/ \E a \in Attachments, l \in Leases : OpenAttachment(a, l)
    \/ \E a \in Attachments : SettleAttachment(a)
    \/ \E l \in Leases : LoseLease(l)
    \/ \E t \in Threads, k \in CustodyIds, o \in Owners :
          \/ \E a \in Attachments : BeginRelease(t, k, o, a) \/ BeginReclaim(t, k, o, a)
          \/ BeginRetire(t, k, o)
    \/ \E t \in Threads :
          \/ FailRelease(t) \/ AcceptRelease(t)
          \/ ReclaimAttach(t) \/ ReclaimFails(t) \/ ReclaimCommit(t)
          \/ RetireDestroy(t) \/ RetireCommit(t)
    \/ Recover
    \/ \E k \in CustodyIds : Expire(k) \/ \E damage \in {"body", "identity"} : Corrupt(k, damage)
    \/ Crash

Spec == Init /\ [][Next]_vars

-----------------------------------------------------------------------------
(* Properties                                                              *)

Holders(l) == {a \in Attachments : attachment[a].lease = l /\ attachment[a].state = "open"}

\* A territory has at most one attachment that can use it, and none while
\* custody holds it for a reclaim.
HolderIsExclusive ==
    /\ \A l \in Leases : \A a, b \in Holders(l) : a = b
    /\ \A k \in CustodyIds :
          row[k].phase \in {"retained", "claiming"} => Holders(row[k].lease) = {}

\* A retired row is a tombstone of verified destruction.
RetiredIsGone == \A k \in CustodyIds : row[k].phase = "retired" => lease[row[k].lease] = "destroyed"

\* Once fenced for destruction a territory never comes back into use, whatever
\* release, reclaim or retire was in flight when it was fenced.
FenceKept ==
    \A k \in CustodyIds :
       /\ row[k].phase = "retiring" => row'[k].phase \in {"retiring", "retired", "quarantined"}
       /\ row[k].phase \in {"retired", "quarantined"} =>
             row'[k].phase \in {row[k].phase, "retiring", "quarantined"}

\* No attachment in use has its territory destroyed by custody.
OpenHasTerritory ==
    \A a \in Attachments : attachment[a].state = "open" => lease[attachment[a].lease] # "destroyed"

\* A host that recovers only before it serves, over a ledger nobody damages.
Careful == ~RecoverAtAnyTime /\ MaxCorruptions = 0

\* A territory has one holder: at most one attachment can use it, none while
\* custody holds it for a reclaim, a retired row speaks of a destroyed one, and
\* where the host is careful nothing in use is destroyed (release, reclaim,
\* retire and recover of _retention.py).
CustodyHolds == HolderIsExclusive /\ RetiredIsGone /\ (Careful => OpenHasTerritory)

\* A territory fenced for destruction never comes back into use.
FencesKept == [][FenceKept]_vars

-----------------------------------------------------------------------------
(* Proofs.  None of the properties survives a step by itself.  What does is *)
(* that at most one row that is not retired and at most one open attachment *)
(* speak for a territory, and that every call in flight speaks for the      *)
(* territory of its row, whatever has become of that row meanwhile.         *)

TerritoryBounds == MaxCustodies \in Nat /\ MaxLeases \in Nat /\ MaxAttachments \in Nat

Phases == {"none", "releasing", "retained", "claiming", "attached", "retiring", "retired", "quarantined"}
States == {"unborn", "open", "settled", "uncertain", "released", "lost", "claimed", "dead"}
Rows ==
    [phase : Phases,
     owner : Owners \cup {None}, gen : Nat, source : Nat, lease : Nat, expired : BOOLEAN,
     archive : Nat, target : Nat, damage : {"none", "body", "identity"}]
Bindings == [state : States, lease : Nat, epoch : Nat]
Ops == {"none", "release", "reclaim", "retire"}
Pcs == {"idle", "accept", "attach", "destroy", "commit"}
Jobs ==
    [op : Ops, pc : Pcs,
     id : Nat, att : Nat, gen : Nat, lease : Nat]

TerritoryType ==
    /\ row \in [CustodyIds -> Rows]
    /\ lease \in [Leases -> {"absent", "ready", "terminal", "destroyed"}]
    /\ attachment \in [Attachments -> Bindings]
    /\ job \in [Threads -> Jobs]
    /\ served \in BOOLEAN /\ crashes \in Nat /\ corruptions \in Nat

Live(k) == row[k].phase \notin {"none", "retired"}
Kept(k) == row[k].phase \in {"retained", "claiming"}
Opened(l) == l \in Leases /\ lease[l] # "absent"
Uses(a, l) == attachment[a].state = "open" /\ attachment[a].lease = l

\* A row keeps the lease of its first release for ever.
RowOk(k) ==
    /\ row[k].damage # "none" => row[k].phase # "none"
    /\ row[k].phase # "none" =>
          /\ Opened(row[k].lease) /\ row[k].source \in Attachments
          /\ row[k].phase = "retired" => lease[row[k].lease] = "destroyed"
          /\ Kept(k) => \A a \in Attachments : ~Uses(a, row[k].lease)

JobOk(t) ==
    job[t].op # "none" =>
        /\ job[t].id \in CustodyIds
        /\ row[job[t].id].phase # "none" /\ row[job[t].id].lease = job[t].lease
        /\ job[t].op \in {"release", "reclaim"} =>
              /\ job[t].att \in Attachments
              /\ attachment[job[t].att].state # "unborn"
              /\ attachment[job[t].att].lease = job[t].lease
        /\ job[t].op = "retire" /\ job[t].pc = "commit" => lease[job[t].lease] = "destroyed"

\* The inductive invariant: at most one row that is not retired and at most one
\* open attachment speak for a territory, and a call in flight speaks for the
\* territory of its row.
TerritoryInv ==
    /\ TerritoryType
    /\ \A k \in CustodyIds : RowOk(k)
    /\ \A j, k \in CustodyIds : Live(j) /\ Live(k) /\ row[j].lease = row[k].lease => j = k
    /\ \A a \in Attachments : attachment[a].state # "unborn" => Opened(attachment[a].lease)
    /\ \A a, b \in Attachments, l \in Leases : Uses(a, l) /\ Uses(b, l) => a = b
    /\ \A t \in Threads : JobOk(t)

\* What each update makes of a row, of an attachment and of a call.
SameRow(r, s) == s \in Rows /\ s.lease = r.lease /\ s.source = r.source

LEMMA RowUpdates ==
    ASSUME NEW r \in Rows
    PROVE /\ \A p \in Phases : SameRow(r, Phased(r, p)) /\ Phased(r, p).phase = p
          /\ \A a \in Nat : SameRow(r, Retained(r, a)) /\ Retained(r, a).phase = "retained"
          /\ \A a \in Nat : SameRow(r, Claimed(r, a)) /\ Claimed(r, a).phase = "claiming"
          /\ SameRow(r, Retired(r)) /\ Retired(r).phase = "retired"
          /\ SameRow(r, Doomed(r)) /\ Doomed(r).phase = "retiring"
          /\ SameRow(r, Overdue(r)) /\ Overdue(r).phase = r.phase
          /\ \A d \in {"body", "identity"} :
                SameRow(r, Damaged(r, d)) /\ Damaged(r, d).phase = r.phase
          /\ r.phase \in Phases /\ r.lease \in Nat /\ r.source \in Nat /\ r.gen \in Nat
  BY Zenon DEF SameRow, Rows, Phases, Phased, Retained, Claimed, Retired,
         Doomed, Overdue, Damaged

LEMMA RowMade ==
    /\ NoRow \in Rows /\ NoRow.phase = "none" /\ NoRow.damage = "none"
    /\ \A o \in Owners, gen, a, l \in Nat :
          /\ Releasing(o, gen, a, l) \in Rows
          /\ Releasing(o, gen, a, l).phase = "releasing"
          /\ Releasing(o, gen, a, l).lease = l /\ Releasing(o, gen, a, l).source = a
          /\ Releasing(o, gen, a, l).damage = "none"
  BY DEF Rows, Phases, NoRow, Releasing

LEMMA BindingMade ==
    /\ \A s \in States, l, e \in Nat :
          /\ Binding(s, l, e) \in Bindings
          /\ Binding(s, l, e).state = s /\ Binding(s, l, e).lease = l
    /\ \A b \in Bindings : b.state \in States /\ b.lease \in Nat /\ b.epoch \in Nat
  BY DEF Bindings, Binding

LEMMA BindingTurned ==
    ASSUME TerritoryType, NEW a \in Attachments, NEW s \in States
    PROVE /\ Became(a, s) \in Bindings /\ Became(a, s).state = s
          /\ Became(a, s).lease = attachment[a].lease
  BY DEF TerritoryType, Bindings, Became

LEMMA JobMade ==
    /\ NoJob \in Jobs /\ NoJob.op = "none"
    /\ \A op \in Ops, pc \in Pcs, id, a, gen, l \in Nat :
          LET j == Job(op, pc, id, a, gen, l) IN
          j \in Jobs /\ j.op = op /\ j.pc = pc /\ j.id = id /\ j.att = a /\ j.lease = l
    /\ \A j \in Jobs, pc \in Pcs :
          LET k == Moved(j, pc) IN
          k \in Jobs /\ k.op = j.op /\ k.pc = pc /\ k.id = j.id /\ k.att = j.att /\ k.lease = j.lease
    /\ \A j \in Jobs : j.op \in Ops /\ j.id \in Nat /\ j.att \in Nat /\ j.lease \in Nat
  BY DEF Jobs, Ops, Pcs, NoJob, Job, Moved

LEMMA TerritoryInit == ASSUME TerritoryBounds, Init PROVE TerritoryInv
<1>1. TerritoryType
  BY RowMade, BindingMade, JobMade, Zenon
     DEF TerritoryBounds, Init, TerritoryType, States, NoAttachment
<1>2. /\ \A k \in CustodyIds : row[k].phase = "none" /\ row[k].damage = "none"
      /\ \A t \in Threads : job[t].op = "none"
  BY RowMade, JobMade DEF Init
<1>3. \A a \in Attachments : attachment[a].state = "unborn"
  BY BindingMade DEF Init, States, NoAttachment
<1>. QED
  BY <1>1, <1>2, <1>3 DEF TerritoryInv, RowOk, JobOk, Live, Uses

\* What no step undoes.
TerritoryGrows ==
    /\ \A k \in CustodyIds :
          row[k].phase # "none" =>
             row'[k].phase # "none" /\ row'[k].lease = row[k].lease
    /\ \A a \in Attachments :
          attachment[a].state # "unborn" =>
             attachment'[a].state # "unborn" /\ attachment'[a].lease = attachment[a].lease
    /\ \A l \in Leases :
          /\ lease[l] # "absent" => lease'[l] # "absent"
          /\ lease[l] = "destroyed" => lease'[l] = "destroyed"

\* What a step must show of a row, an attachment or a call that it changes.
RowMoved(k) ==
    /\ row'[k].damage # "none" => row'[k].phase # "none"
    /\ row'[k].phase # "none" =>
          row'[k].source \in Attachments /\ (row[k].phase = "none" => Opened(row[k].lease)')
    /\ row'[k].phase = "retired" => row[k].phase = "retired" \/ lease'[row'[k].lease] = "destroyed"
    /\ Kept(k)' => Kept(k) \/ \A a \in Attachments : ~Uses(a, row[k].lease)'
    /\ Live(k)' => Live(k) \/ \A j \in CustodyIds \ {k} : Live(j)' => row'[j].lease # row'[k].lease
StateMoved(a) ==
    /\ attachment[a].state = "unborn" /\ attachment'[a].state # "unborn" => Opened(attachment[a].lease)'
    /\ attachment'[a].state = "open" /\ attachment[a].state # "open" =>
          /\ \A b \in Attachments : Uses(b, attachment[a].lease)' => b = a
          /\ \A k \in CustodyIds : Kept(k)' => row'[k].lease # attachment'[a].lease

LEMMA TerritoryAssembled ==
    ASSUME TerritoryInv, TerritoryType', TerritoryGrows,
           \A k \in CustodyIds : row'[k] = row[k] \/ RowMoved(k),
           \A a \in Attachments : attachment'[a] = attachment[a] \/ StateMoved(a),
           \A t \in Threads : job'[t] = job[t] \/ JobOk(t)'
    PROVE  TerritoryInv'
<1>1. \A k \in CustodyIds : RowOk(k)'
  <2> SUFFICES ASSUME NEW k \in CustodyIds PROVE RowOk(k)'
    OBVIOUS
  <2>1. row'[k].phase # "none" => Opened(row[k].lease)' /\ row'[k].source \in Attachments
    BY DEF TerritoryInv, RowOk, RowMoved, TerritoryGrows, Opened
  <2>2. row'[k].phase = "retired" => lease'[row'[k].lease] = "destroyed"
    BY DEF TerritoryInv, RowOk, RowMoved, TerritoryGrows, Opened
  <2>3. ASSUME Kept(k)', NEW a \in Attachments, Uses(a, row[k].lease)' PROVE FALSE
    BY <2>3 DEF TerritoryInv, RowOk, RowMoved, StateMoved, TerritoryGrows, Kept, Uses
  <2>4. row'[k].damage # "none" => row'[k].phase # "none"
    BY DEF TerritoryInv, RowOk, RowMoved
  <2> QED
    BY <2>1, <2>2, <2>3, <2>4 DEF RowOk, Kept, Uses, Opened, Attachments, Leases
<1>2. \A j, k \in CustodyIds : (Live(j) /\ Live(k) /\ row[j].lease = row[k].lease => j = k)'
  BY DEF TerritoryInv, RowMoved, TerritoryGrows, Live
<1>3. \A a \in Attachments : (attachment[a].state # "unborn" => Opened(attachment[a].lease))'
  BY DEF TerritoryInv, StateMoved, TerritoryGrows, Opened
<1>4. \A a, b \in Attachments, l \in Leases : (Uses(a, l) /\ Uses(b, l) => a = b)'
  BY DEF TerritoryInv, StateMoved, TerritoryGrows, Uses, Leases
<1>5. \A t \in Threads : JobOk(t)'
  BY DEF TerritoryInv, JobOk, TerritoryGrows, Opened, RowOk, Leases, CustodyIds, Attachments
<1> QED
  BY <1>1, <1>2, <1>3, <1>4, <1>5, Zenon DEF TerritoryInv, CustodyIds, Attachments, Leases

\* What no step of a careful host undoes: only a territory that nobody uses is
\* fenced, and only a territory that is fenced or that its own attachment gives up
\* is destroyed.
Idled(l) == \A a \in Attachments : ~Uses(a, l)
Given(a) ==
    attachment[a].state = "uncertain" =>
        /\ Idled(attachment[a].lease)
        /\ \A k \in CustodyIds : Kept(k) => row[k].lease # attachment[a].lease
CalmRow(k) ==
    /\ row[k].damage = "none" /\ row[k].phase # "quarantined"
    /\ Kept(k) => lease[row[k].lease] # "destroyed"
    /\ row[k].phase = "retiring" => Idled(row[k].lease)
    /\ row[k].phase # "none" /\ ~served => Idled(row[k].lease)
CalmJob(t) ==
    job[t].op # "none" =>
        served /\ (job[t].op = "retire" => row[job[t].id].phase \in {"retiring", "retired"})
Calm ==
    /\ \A k \in CustodyIds : CalmRow(k)
    /\ \A a \in Attachments : Given(a)
    /\ \A t \in Threads : CalmJob(t)
    /\ OpenHasTerritory

\* What every step is shown to do.
Keeps == TerritoryInv' /\ FenceKept /\ (Careful /\ Calm => Calm')

\* The effect of a step on one row, one attachment or one call.
LEMMA RowSet ==
    ASSUME TerritoryType, NEW k \in CustodyIds, NEW r, SameRow(row[k], r),
           row' = [row EXCEPT ![k] = r]
    PROVE  /\ row' \in [CustodyIds -> Rows] /\ row'[k] = r
           /\ row'[k].lease = row[k].lease /\ row'[k].source = row[k].source
           /\ \A j \in CustodyIds : j # k => row'[j] = row[j]
  BY DEF TerritoryType, SameRow

LEMMA StateSet ==
    ASSUME TerritoryType, NEW a \in Attachments, NEW s \in States, SetState(a, s)
    PROVE  /\ attachment' \in [Attachments -> Bindings]
           /\ attachment'[a].state = s /\ attachment'[a].lease = attachment[a].lease
           /\ \A b \in Attachments : b # a => attachment'[b] = attachment[b]
  BY BindingTurned DEF TerritoryType, SetState

LEMMA JobEnded ==
    ASSUME TerritoryType, NEW t \in Threads, EndJob(t)
    PROVE  /\ job' \in [Threads -> Jobs] /\ job'[t].op = "none"
           /\ \A u \in Threads : u # t => job'[u] = job[u]
           /\ JobOk(t)' /\ CalmJob(t)'
<1>1. job' \in [Threads -> Jobs] /\ job'[t].op = "none" /\ \A u \in Threads : u # t => job'[u] = job[u]
  BY JobMade DEF TerritoryType, EndJob
<1> QED
  BY <1>1 DEF JobOk, CalmJob

LEMMA RowUnharmed ==
    ASSUME NEW r \in Rows
    PROVE /\ \A p \in Phases : Phased(r, p).damage = r.damage
          /\ \A a \in Nat : Retained(r, a).damage = r.damage /\ Claimed(r, a).damage = r.damage
          /\ Retired(r).damage = r.damage /\ Overdue(r).damage = r.damage
  BY Zenon DEF Rows, Phases, Phased, Retained, Claimed, Retired,
         Overdue

\* A step that changes no row, or only in ways that fence it further, keeps fences.
LEMMA FenceAssembled ==
    ASSUME \A k \in CustodyIds :
              \/ row'[k].phase = row[k].phase
              \/ row[k].phase \notin {"retiring", "retired", "quarantined"}
              \/ row[k].phase = "retiring" /\ row'[k].phase \in {"retired", "quarantined"}
              \/ row'[k].phase \in {"retiring", "quarantined"}
    PROVE  FenceKept
  BY DEF FenceKept
\* What a careful step must show of what it changes.
CalmMoved(k) ==
    /\ row'[k].damage = "none" /\ row'[k].phase # "quarantined"
    /\ Kept(k)' /\ ~Kept(k) =>
          /\ lease'[row'[k].lease] # "destroyed"
          /\ \A a \in Attachments :
                attachment'[a].state = "uncertain" => attachment'[a].lease # row'[k].lease
    /\ row'[k].phase = "retiring" /\ row[k].phase # "retiring" => Idled(row[k].lease)'
    /\ row'[k].phase # "none" /\ row[k].phase = "none" => served'
CalmTurn(a) ==
    /\ attachment'[a].state = "uncertain" => attachment[a].state \in {"open", "uncertain"}
    /\ attachment'[a].state = "open" /\ attachment[a].state # "open" =>
          /\ lease'[attachment'[a].lease] # "destroyed"
          /\ \A k \in CustodyIds :
                row'[k].phase # "none" /\ row'[k].lease = attachment'[a].lease =>
                   served' /\ row'[k].phase # "retiring"
          /\ \A b \in Attachments :
                attachment'[b].state = "uncertain" => attachment'[b].lease # attachment'[a].lease
CalmLease(l) ==
    lease'[l] = "destroyed" /\ lease[l] # "destroyed" =>
        /\ Idled(l)'
        /\ \A k \in CustodyIds : Kept(k)' => row'[k].lease # l
CalmStart ==
    \/ served => served'
    \/ /\ \A a \in Attachments : attachment'[a].state # "open"
       /\ \A t \in Threads : job'[t].op = "none"

LEMMA CalmAssembled ==
    ASSUME TerritoryInv, TerritoryInv', TerritoryGrows, FenceKept, Calm, CalmStart,
           \A k \in CustodyIds : row'[k] = row[k] \/ CalmMoved(k),
           \A a \in Attachments : attachment'[a] = attachment[a] \/ CalmTurn(a),
           \A l \in Leases : lease'[l] = lease[l] \/ CalmLease(l),
           \A t \in Threads : job'[t] = job[t] \/ CalmJob(t)'
    PROVE  Calm'
<1>3. ASSUME NEW k \in CustodyIds
      PROVE  CalmRow(k)'
  <2>1. row'[k].damage = "none" /\ row'[k].phase # "quarantined"
    BY DEF Calm, CalmRow, CalmMoved
  <2>2. Kept(k)' => lease'[row'[k].lease] # "destroyed"
    <3> SUFFICES ASSUME Kept(k)', lease'[row'[k].lease] = "destroyed" PROVE FALSE
      OBVIOUS
    <3>1. Kept(k)
      BY DEF CalmMoved, Kept
    <3>2. row'[k].lease = row[k].lease /\ row[k].lease \in Leases /\ lease[row[k].lease] # "destroyed"
      BY <3>1 DEF Kept, TerritoryGrows, TerritoryInv, RowOk, Opened, Calm, CalmRow
    <3> QED
      BY <3>2 DEF CalmLease
  <2>3. ASSUME row'[k].phase = "retiring", NEW a \in Attachments, Uses(a, row[k].lease)' PROVE FALSE
    <3>1. row[k].phase = "retiring" /\ Idled(row[k].lease) /\ row'[k].lease = row[k].lease
      BY <2>3 DEF CalmMoved, Idled, Calm, CalmRow, TerritoryGrows
    <3> QED
      BY <2>3, <3>1 DEF Idled, CalmTurn, Uses, TerritoryGrows
  <2>4. ASSUME row'[k].phase # "none", ~served', NEW a \in Attachments, Uses(a, row[k].lease)' PROVE FALSE
    <3>1. ~served /\ row[k].phase # "none"
      BY <2>4 DEF CalmStart, Uses, CalmMoved
    <3>2. Idled(row[k].lease) /\ row'[k].lease = row[k].lease
      BY <3>1 DEF Calm, CalmRow, TerritoryGrows
    <3> QED
      BY <2>4, <3>2 DEF Idled, CalmTurn, Uses, TerritoryGrows
  <2> QED
    BY <2>1, <2>2, <2>3, <2>4 DEF CalmRow, Idled, Kept, Attachments
<1>4. ASSUME NEW a \in Attachments
      PROVE  Given(a)'
  <2> SUFFICES ASSUME attachment'[a].state = "uncertain"
               PROVE  /\ Idled(attachment[a].lease)'
                      /\ \A k \in CustodyIds : Kept(k)' => row'[k].lease # attachment'[a].lease
    BY DEF Given, CustodyIds
  <2>1. attachment[a].state \in {"open", "uncertain"} /\ attachment'[a].lease = attachment[a].lease
    BY DEF CalmTurn, TerritoryGrows
  <2>2. ASSUME NEW b \in Attachments, Uses(b, attachment[a].lease)' PROVE FALSE
    <3>1. attachment[b].state = "open" /\ attachment'[b].lease = attachment[b].lease
      BY <2>2 DEF CalmTurn, Uses, TerritoryGrows
    <3>2. attachment[a].lease \in Leases
      BY <2>1 DEF TerritoryInv, Opened
    <3> QED
      BY <2>1, <2>2, <3>1, <3>2, Zenon DEF Uses, Calm, Given, Idled, TerritoryInv
  <2>3. ASSUME NEW k \in CustodyIds, Kept(k)' PROVE row'[k].lease # attachment'[a].lease
    <3>1. CASE Kept(k)
      BY <2>1, <3>1 DEF Calm, Given, TerritoryInv, RowOk, Uses, Kept, TerritoryGrows
    <3>2. CASE ~Kept(k)
      BY <2>3, <3>2 DEF CalmMoved, Kept
    <3> QED
      BY <3>1, <3>2
  <2> QED
    BY <2>2, <2>3 DEF Idled, Attachments
<1>5. ASSUME NEW t \in Threads
      PROVE  CalmJob(t)'
  <2> SUFFICES ASSUME job'[t] = job[t], job[t].op # "none" PROVE CalmJob(t)'
    BY DEF CalmJob
  <2>1. served' /\ job[t].id \in CustodyIds
    BY DEF CalmStart, Calm, CalmJob, TerritoryInv, JobOk
  <2>2. job[t].op = "retire" => row'[job[t].id].phase \in {"retiring", "retired"}
    BY <1>3, <2>1 DEF Calm, CalmJob, FenceKept, CalmRow
  <2> QED
    BY <2>1, <2>2 DEF CalmJob
<1>6. ASSUME NEW a \in Attachments, attachment'[a].state = "open"
      PROVE  lease'[attachment'[a].lease] # "destroyed"
  <2>1. CASE attachment[a].state = "open"
    <3>1. attachment'[a].lease = attachment[a].lease /\ attachment[a].lease \in Leases
      BY <2>1 DEF TerritoryGrows, TerritoryInv, Opened
    <3> QED
      BY <1>6, <2>1, <3>1 DEF Calm, OpenHasTerritory, CalmLease, Idled, Uses
  <2>2. CASE attachment[a].state # "open"
    BY <1>6, <2>2 DEF CalmTurn
  <2> QED
    BY <2>1, <2>2
<1> QED
  BY <1>3, <1>4, <1>5, <1>6
     DEF Calm, OpenHasTerritory, CustodyIds, Attachments
-----------------------------------------------------------------------------
\* One lemma per action.

LEMMA OpenKeeps ==
    ASSUME TerritoryInv, NEW a \in Attachments, NEW l \in Leases, TerritoryBounds,
           OpenAttachment(a, l)
    PROVE  Keeps
<1>1. attachment[a].state = "unborn" /\ lease[l] = "absent" /\ l \in Nat
  BY DEF OpenAttachment, IsNext, Unborn, Leases, TerritoryBounds
<1>2. /\ attachment' = [attachment EXCEPT ![a] = Binding("open", l, 1)]
      /\ lease' = [lease EXCEPT ![l] = "ready"]
      /\ UNCHANGED <<row, job, served, crashes, corruptions>>
  BY DEF OpenAttachment
<1>3. TerritoryType' /\ attachment'[a].state = "open" /\ attachment'[a].lease = l
  BY <1>1, <1>2, BindingMade DEF TerritoryInv, TerritoryType, States
<1>4. \A b \in Attachments : b # a => attachment'[b] = attachment[b]
  BY <1>2 DEF TerritoryInv, TerritoryType
<1>5. lease'[l] = "ready" /\ \A m \in Leases : m # l => lease'[m] = lease[m]
  BY <1>2 DEF TerritoryInv, TerritoryType
<1>6. TerritoryGrows
  BY <1>1, <1>2, <1>4, <1>5 DEF TerritoryGrows
<1>7. StateMoved(a)
  BY <1>1, <1>2, <1>3, <1>4, <1>5 DEF TerritoryInv, StateMoved, Uses, Kept, RowOk, Opened
<1>8. TerritoryInv'
  BY <1>2, <1>3, <1>4, <1>6, <1>7, TerritoryAssembled
<1>9. FenceKept
  BY <1>2, FenceAssembled
<1>10. CalmTurn(a) /\ CalmLease(l) /\ CalmStart
  BY <1>1, <1>2, <1>3, <1>4, <1>5 DEF TerritoryInv, CalmTurn, CalmLease, CalmStart, RowOk, Opened
<1> QED
  BY <1>2, <1>4, <1>5, <1>6, <1>8, <1>9, <1>10, CalmAssembled DEF Keeps

LEMMA SettleKeeps ==
    ASSUME TerritoryInv, NEW a \in Attachments, SettleAttachment(a)
    PROVE  Keeps
<1>1. PICK s \in {"settled", "uncertain"} :
         /\ SetState(a, s)
         /\ \/ lease' = lease
            \/ s = "settled" /\ lease' = [lease EXCEPT ![attachment[a].lease] = "destroyed"]
  BY DEF SettleAttachment
<1>2. attachment[a].state \in {"open", "uncertain"} /\ UNCHANGED <<row, job, served, crashes, corruptions>>
  BY DEF SettleAttachment
<1>3. PICK l \in Leases : l = attachment[a].lease
  BY <1>2 DEF TerritoryInv, Opened
<1>4. /\ attachment' \in [Attachments -> Bindings]
      /\ attachment'[a].state = s /\ attachment'[a].lease = l
      /\ \A b \in Attachments : b # a => attachment'[b] = attachment[b]
  BY <1>1, <1>3, StateSet DEF TerritoryInv, States
<1>5. TerritoryType' /\ \A m \in Leases : lease'[m] = lease[m] \/ (m = l /\ s = "settled" /\ lease'[m] = "destroyed")
  BY <1>1, <1>2, <1>3, <1>4 DEF TerritoryInv, TerritoryType
<1>7. TerritoryGrows
  BY <1>2, <1>3, <1>4, <1>5 DEF TerritoryGrows
<1>8. StateMoved(a)
  BY <1>2, <1>4 DEF StateMoved
<1>9. TerritoryInv' /\ FenceKept
  BY <1>2, <1>4, <1>5, <1>7, <1>8, TerritoryAssembled, FenceAssembled
<1>10. CalmTurn(a) /\ CalmStart
  BY <1>2, <1>4 DEF CalmTurn, CalmStart
<1>11. ASSUME Calm, s = "settled" PROVE CalmLease(l)
  <2>1. \A b \in Attachments : b # a => ~Uses(b, l)
    BY <1>2, <1>3, <1>11 DEF TerritoryInv, Uses, Calm, Given, Idled
  <2>2. \A k \in CustodyIds : Kept(k) => row[k].lease # l
    BY <1>2, <1>3, <1>11 DEF TerritoryInv, RowOk, Uses, Calm, Given, Kept
  <2> QED
    BY <1>2, <1>4, <1>11, <2>1, <2>2 DEF CalmLease, Idled, Uses, Kept
<1> QED
  BY <1>2, <1>4, <1>5, <1>7, <1>9, <1>10, <1>11, CalmAssembled DEF Keeps

LEMMA LoseKeeps ==
    ASSUME TerritoryInv, NEW l \in Leases, LoseLease(l)
    PROVE  Keeps
<1>1. /\ lease[l] = "ready" /\ lease' = [lease EXCEPT ![l] = "terminal"]
      /\ UNCHANGED <<row, attachment, job, served, crashes, corruptions>>
  BY DEF LoseLease
<1>2. TerritoryType' /\ TerritoryGrows
  BY <1>1 DEF TerritoryInv, TerritoryType, TerritoryGrows
<1>3. TerritoryInv' /\ FenceKept
  BY <1>1, <1>2, TerritoryAssembled, FenceAssembled
<1>4. CalmStart /\ \A m \in Leases : CalmLease(m)
  BY <1>1 DEF CalmStart, CalmLease, TerritoryInv, TerritoryType
<1> QED
  BY <1>1, <1>2, <1>3, <1>4, CalmAssembled DEF Keeps

LEMMA ReleaseKeeps ==
    ASSUME TerritoryInv, TerritoryBounds, NEW t \in Threads, NEW k \in CustodyIds, NEW o \in Owners,
           NEW a \in Attachments, BeginRelease(t, k, o, a)
    PROVE  Keeps
<1>0. PICK l, gen : l = attachment[a].lease /\ gen = row[k].gen + 1
  OBVIOUS
<1>1. /\ attachment[a].state # "unborn"
      /\ row[k].phase = "none" \/ (row[k].phase = "attached" /\ row[k].lease = l)
      /\ OperationFree(k, l)
      /\ row' = [row EXCEPT ![k] = Releasing(o, gen, a, l)]
      /\ job' = [job EXCEPT ![t] = Job("release", "accept", k, a, gen, l)]
      /\ served' = TRUE /\ UNCHANGED <<lease, attachment, crashes, corruptions>>
  BY <1>0 DEF BeginRelease
<1>2. Opened(l) /\ l \in Nat /\ gen \in Nat /\ a \in Nat /\ k \in Nat
  BY <1>0, <1>1, BindingMade, RowUpdates
     DEF TerritoryInv, TerritoryType, TerritoryBounds, Attachments, CustodyIds
<1>3. /\ row' \in [CustodyIds -> Rows]
      /\ row'[k].phase = "releasing" /\ row'[k].lease = l /\ row'[k].source = a /\ row'[k].damage = "none"
  <2>1. PICK r : r = Releasing(o, gen, a, l)
    OBVIOUS
  <2>2. r \in Rows /\ r.phase = "releasing" /\ r.lease = l /\ r.source = a /\ r.damage = "none"
    BY <1>2, <2>1 DEF Releasing, Rows, Phases
  <2> QED
    BY <1>1, <2>1, <2>2 DEF TerritoryInv, TerritoryType
<1>4. \A j \in CustodyIds : j # k => row'[j] = row[j]
  BY <1>1 DEF TerritoryInv, TerritoryType
<1>5. /\ job' \in [Threads -> Jobs]
      /\ job'[t].op = "release" /\ job'[t].id = k /\ job'[t].att = a /\ job'[t].lease = l
  <2>1. PICK j : j = Job("release", "accept", k, a, gen, l)
    OBVIOUS
  <2>2. j \in Jobs /\ j.op = "release" /\ j.id = k /\ j.att = a /\ j.lease = l
    BY <1>2, <2>1 DEF Job, Jobs, Ops, Pcs
  <2> QED
    BY <1>1, <2>1, <2>2 DEF TerritoryInv, TerritoryType
<1>6. \A u \in Threads : u # t => job'[u] = job[u]
  BY <1>1 DEF TerritoryInv, TerritoryType
<1>7. TerritoryType'
  BY <1>1, <1>3, <1>5 DEF TerritoryInv, TerritoryType
<1>8. JobOk(t)' /\ CalmJob(t)'
  BY <1>0, <1>1, <1>3, <1>5 DEF JobOk, CalmJob
<1>9. RowMoved(k) /\ CalmMoved(k) /\ CalmStart
  <2>1. \A j \in CustodyIds \ {k} : Live(j)' => row'[j].lease # l
    BY <1>1, <1>4, <1>2, Zenon DEF Live, OperationFree, TerritoryInv, RowOk
  <2> QED
    BY <1>1, <1>2, <1>3, <2>1 DEF RowMoved, CalmMoved, CalmStart, Live, Kept, Opened
<1>10. TerritoryGrows
  BY <1>1, <1>3, <1>4 DEF TerritoryGrows, TerritoryInv, RowOk
<1>11. TerritoryInv' /\ FenceKept
  BY <1>1, <1>4, <1>6, <1>7, <1>8, <1>9, <1>10, TerritoryAssembled, FenceAssembled
<1> QED
  BY <1>1, <1>4, <1>6, <1>8, <1>9, <1>10, <1>11, CalmAssembled DEF Keeps

LEMMA FailKeeps ==
    ASSUME TerritoryInv, NEW t \in Threads, FailRelease(t)
    PROVE  Keeps
<1>0. PICK a, s : a = job[t].att /\ s = IF attachment[a].state = "open" THEN "uncertain" ELSE attachment[a].state
  OBVIOUS
<1>1. /\ job[t].op = "release" /\ SetState(a, s)
      /\ EndJob(t) /\ UNCHANGED <<row, lease, served, crashes, corruptions>>
  BY <1>0 DEF FailRelease
<1>2. a \in Attachments /\ attachment[a].state # "unborn" /\ s \in States /\ s # "open" /\ s # "unborn"
  BY <1>0, <1>1, BindingMade DEF TerritoryInv, TerritoryType, JobOk, States
<1>3. /\ attachment' \in [Attachments -> Bindings]
      /\ attachment'[a].state = s /\ attachment'[a].lease = attachment[a].lease
      /\ \A b \in Attachments : b # a => attachment'[b] = attachment[b]
  BY <1>1, <1>2, StateSet DEF TerritoryInv
<1>4. /\ job' \in [Threads -> Jobs] /\ JobOk(t)' /\ CalmJob(t)'
      /\ \A u \in Threads : u # t => job'[u] = job[u]
  BY <1>1, JobEnded DEF TerritoryInv
<1>5. TerritoryType' /\ TerritoryGrows /\ StateMoved(a) /\ CalmTurn(a) /\ CalmStart
  BY <1>0, <1>1, <1>2, <1>3, <1>4 DEF TerritoryInv, TerritoryType, TerritoryGrows, StateMoved, CalmTurn, CalmStart
<1>6. TerritoryInv' /\ FenceKept
  BY <1>1, <1>3, <1>4, <1>5, TerritoryAssembled, FenceAssembled
<1> QED
  BY <1>1, <1>3, <1>4, <1>5, <1>6, CalmAssembled DEF Keeps
LEMMA AcceptKeeps ==
    ASSUME TerritoryInv, TerritoryBounds, NEW t \in Threads, AcceptRelease(t)
    PROVE  Keeps
<1>0. PICK k, a : k = job[t].id /\ a = job[t].att
  OBVIOUS
<1>1. /\ job[t].op = "release" /\ attachment[a].state = "open"
      /\ EndJob(t) /\ UNCHANGED <<lease, served, crashes, corruptions>>
  BY <1>0 DEF AcceptRelease
<1>2. /\ k \in CustodyIds /\ a \in Attachments /\ a \in Nat
      /\ row[k] \in Rows /\ row[k].phase # "none" /\ row[k].phase \in Phases
  BY <1>0, <1>1, RowUpdates DEF TerritoryInv, TerritoryType, JobOk, Attachments, TerritoryBounds
<1>3. PICK s \in {"released", "lost"} : SetState(a, s)
  BY <1>0 DEF AcceptRelease
<1>4. PICK r : /\ row' = [row EXCEPT ![k] = r] /\ SameRow(row[k], r) /\ r.damage = row[k].damage
               /\ \/ r.phase = row[k].phase
                  \/ row[k].phase = "releasing" /\ r.phase \in {"retained", "retiring"}
  <2>1. CASE row' = [row EXCEPT ![k] = Retained(row[k], a)] /\ row[k].phase = "releasing"
    <3>1. PICK r : r = Retained(row[k], a)
      OBVIOUS
    <3>2. SameRow(row[k], r) /\ r.phase = "retained" /\ r.damage = row[k].damage
      BY <1>2, <3>1, RowUpdates, RowUnharmed, Zenon
    <3> QED
      BY <2>1, <3>1, <3>2, Zenon
  <2>2. ASSUME NEW p \in {row[k].phase, "retiring"}, SetPhase(k, p),
               p = row[k].phase \/ row[k].phase = "releasing"
        PROVE  \E r : /\ row' = [row EXCEPT ![k] = r] /\ SameRow(row[k], r) /\ r.damage = row[k].damage
                      /\ \/ r.phase = row[k].phase
                         \/ row[k].phase = "releasing" /\ r.phase \in {"retained", "retiring"}
    <3>1. p \in Phases
      BY <1>2, <2>2 DEF Phases
    <3>2. PICK r : r = Phased(row[k], p)
      OBVIOUS
    <3>3. SameRow(row[k], r) /\ r.phase = p /\ r.damage = row[k].damage
      BY <1>2, <3>1, <3>2, RowUpdates, RowUnharmed, Zenon
    <3> QED
      BY <2>2, <3>2, <3>3, Zenon DEF SetPhase
  <2> QED
    BY <1>0, <2>1, <2>2, Zenon DEF AcceptRelease
<1>5. /\ row' \in [CustodyIds -> Rows] /\ row'[k] = r
      /\ row'[k].lease = row[k].lease /\ row'[k].source = row[k].source
      /\ \A j \in CustodyIds : j # k => row'[j] = row[j]
  BY <1>2, <1>4, RowSet, Zenon DEF TerritoryInv
<1>6. /\ attachment' \in [Attachments -> Bindings]
      /\ attachment'[a].state = s /\ attachment'[a].lease = attachment[a].lease
      /\ \A b \in Attachments : b # a => attachment'[b] = attachment[b]
  BY <1>2, <1>3, StateSet DEF TerritoryInv, States
<1>7. /\ job' \in [Threads -> Jobs] /\ JobOk(t)' /\ CalmJob(t)'
      /\ \A u \in Threads : u # t => job'[u] = job[u]
  BY <1>1, JobEnded DEF TerritoryInv
<1>8. TerritoryType' /\ TerritoryGrows
  BY <1>1, <1>2, <1>4, <1>5, <1>6, <1>7 DEF TerritoryInv, TerritoryType, TerritoryGrows
<1>9. row[k].lease = attachment[a].lease /\ row[k].lease \in Leases /\ row[k].source \in Attachments
  BY <1>0, <1>1, <1>2 DEF TerritoryInv, JobOk, RowOk, Opened
<1>10. Idled(row[k].lease)'
  BY <1>1, <1>2, <1>5, <1>6, <1>9 DEF TerritoryInv, Idled, Uses
<1>11. RowMoved(k) /\ StateMoved(a)
  <2>1. row'[k].damage # "none" => row'[k].phase # "none"
    BY <1>2, <1>4, <1>5
  <2>2. row'[k].phase = "retired" => row[k].phase = "retired"
    BY <1>4, <1>5
  <2>3. (Live(k)' => Live(k)) /\ (Kept(k)' => Kept(k) \/ row[k].phase = "releasing")
    BY <1>2, <1>4, <1>5 DEF Live, Kept
  <2>4. RowMoved(k)
    BY <1>2, <1>5, <1>9, <1>10, <2>1, <2>2, <2>3 DEF RowMoved, Idled
  <2>5. StateMoved(a)
    BY <1>1, <1>6 DEF StateMoved
  <2> QED
    BY <2>4, <2>5
<1>12. TerritoryInv' /\ FenceKept
  BY <1>1, <1>4, <1>5, <1>6, <1>7, <1>8, <1>11, TerritoryAssembled, FenceAssembled
<1>13. CalmTurn(a) /\ CalmStart
  BY <1>1, <1>6 DEF CalmTurn, CalmStart
<1>14. ASSUME Calm PROVE CalmMoved(k)
  <2>1. lease'[row'[k].lease] # "destroyed"
    BY <1>1, <1>2, <1>5, <1>9, <1>14 DEF Calm, OpenHasTerritory
  <2>2. \A b \in Attachments : attachment'[b].state = "uncertain" => attachment'[b].lease # row'[k].lease
    <3>1. \A b \in Attachments : attachment[b].state = "uncertain" => attachment[b].lease # attachment[a].lease
      BY <1>1, <1>2, <1>14 DEF Calm, Given, Idled, Uses
    <3> QED
      BY <1>5, <1>6, <1>9, <3>1
  <2> QED
    BY <1>2, <1>4, <1>5, <1>10, <1>14, <2>1, <2>2 DEF CalmMoved, Calm, CalmRow
<1> QED
  BY <1>1, <1>5, <1>6, <1>7, <1>8, <1>12, <1>13, <1>14, CalmAssembled DEF Keeps

\* What a row becomes when it is salvaged, fenced or moved while no attachment, no
\* lease and no call but one that ends changes.
LEMMA RowSalvaged ==
    ASSUME NEW r \in Rows
    PROVE  SameRow(r, Salvaged(r)) /\ Salvaged(r).phase \in {"quarantined", "retiring"}
  BY RowUpdates DEF Salvaged, Phases

\* A row that is not free for a call keeps its place among the live rows.
LEMMA RowKeeps ==
    ASSUME TerritoryInv, NEW k \in CustodyIds, NEW r, row' = [row EXCEPT ![k] = r], SameRow(row[k], r),
           row[k].phase # "none", r.phase # "none", TerritoryType',
           UNCHANGED <<lease, attachment>>, \A t \in Threads : job'[t] = job[t] \/ (JobOk(t)' /\ CalmJob(t)'),
           \/ r.phase = row[k].phase
           \/ r.phase \in {"retiring", "quarantined"} /\ (Live(k) \/ OperationFree(k, row[k].lease))
           \/ row[k].phase \notin {"retiring", "retired", "quarantined"} /\ r.phase = "claiming" /\ Kept(k)
           \/ row[k].phase = "retiring" /\ r.phase = "retired" /\ lease[row[k].lease] = "destroyed",
           served => served'
    PROVE  /\ TerritoryGrows /\ TerritoryInv' /\ FenceKept
           /\ Calm /\ CalmMoved(k) => Calm'
<1>1. /\ row' \in [CustodyIds -> Rows] /\ row'[k] = r
      /\ row'[k].lease = row[k].lease /\ row'[k].source = row[k].source
      /\ \A j \in CustodyIds : j # k => row'[j] = row[j]
  BY RowSet, Zenon DEF TerritoryInv
<1>2. TerritoryGrows
  BY <1>1 DEF TerritoryGrows
<1>3. RowMoved(k)
  <2>1. Kept(k)' => Kept(k)
    BY <1>1 DEF Kept
  <2>2. Live(k)' => Live(k) \/ \A j \in CustodyIds \ {k} : Live(j)' => row'[j].lease # row'[k].lease
    BY <1>1 DEF Live, OperationFree
  <2>3. row[k].source \in Attachments /\ (row[k].phase = "retired" => lease[row[k].lease] = "destroyed")
    BY DEF TerritoryInv, RowOk
  <2> QED
    BY <1>1, <2>1, <2>2, <2>3 DEF RowMoved
<1>4. TerritoryInv' /\ FenceKept
  BY <1>1, <1>2, <1>3, TerritoryAssembled, FenceAssembled
<1> QED
  BY <1>1, <1>2, <1>4, CalmAssembled DEF CalmStart
LEMMA ExpireKeeps ==
    ASSUME TerritoryInv, NEW k \in CustodyIds, Expire(k)
    PROVE  Keeps
<1>1. /\ row[k] \in Rows /\ row[k].phase # "none" /\ row' = [row EXCEPT ![k] = Overdue(row[k])]
      /\ UNCHANGED <<lease, attachment, job, served, crashes, corruptions>>
  BY DEF Expire, TerritoryInv, TerritoryType
<1>2. PICK r : r = Overdue(row[k])
  OBVIOUS
<1>3. SameRow(row[k], r) /\ r.phase = row[k].phase /\ r.damage = row[k].damage
  BY <1>1, <1>2, RowUpdates, RowUnharmed
<1>4. row' \in [CustodyIds -> Rows] /\ row'[k] = r
  BY <1>1, <1>2, <1>3, RowSet, Zenon DEF TerritoryInv
<1>5. TerritoryType'
  BY <1>1, <1>4 DEF TerritoryInv, TerritoryType
<1>6. Calm => CalmMoved(k)
  BY <1>1, <1>3, <1>4 DEF Calm, CalmRow, CalmMoved, Kept
<1> QED
  BY <1>1, <1>2, <1>3, <1>5, <1>6, RowKeeps, Zenon DEF Keeps

LEMMA CorruptKeeps ==
    ASSUME TerritoryInv, NEW k \in CustodyIds, NEW d \in {"body", "identity"}, Corrupt(k, d)
    PROVE  Keeps
<1>1. /\ row[k] \in Rows /\ row[k].phase # "none" /\ row' = [row EXCEPT ![k] = Damaged(row[k], d)]
      /\ corruptions < MaxCorruptions /\ corruptions' = corruptions + 1
      /\ UNCHANGED <<lease, attachment, job, served, crashes>>
  BY DEF Corrupt, TerritoryInv, TerritoryType
<1>2. PICK r : r = Damaged(row[k], d)
  OBVIOUS
<1>3. SameRow(row[k], r) /\ r.phase = row[k].phase
  BY <1>1, <1>2, RowUpdates
<1>4. row' \in [CustodyIds -> Rows] /\ row'[k] = r
  BY <1>1, <1>2, <1>3, RowSet, Zenon DEF TerritoryInv
<1>5. TerritoryType' /\ ~Careful
  BY <1>1, <1>4 DEF TerritoryInv, TerritoryType, Careful
<1> QED
  BY <1>1, <1>2, <1>3, <1>5, RowKeeps, Zenon DEF Keeps

LEMMA RetireKeeps ==
    ASSUME TerritoryInv, TerritoryBounds, NEW t \in Threads, NEW k \in CustodyIds, NEW o \in Owners,
           BeginRetire(t, k, o)
    PROVE  Keeps
<1>1. /\ row[k] \in Rows /\ row[k].phase \in {"retained", "retiring"}
      /\ row' = [row EXCEPT ![k] = Phased(row[k], "retiring")]
      /\ job' = [job EXCEPT ![t] = Job("retire", "destroy", k, 0, 0, row[k].lease)]
      /\ served' = TRUE /\ UNCHANGED <<lease, attachment, crashes, corruptions>>
  BY DEF BeginRetire, Retirable, SetPhase, TerritoryInv, TerritoryType
<1>2. PICK r : r = Phased(row[k], "retiring")
  OBVIOUS
<1>3. SameRow(row[k], r) /\ r.phase = "retiring" /\ r.damage = row[k].damage
  BY <1>1, <1>2, RowUpdates, RowUnharmed DEF Phases
<1>4. row' \in [CustodyIds -> Rows] /\ row'[k] = r /\ row'[k].lease = row[k].lease
  BY <1>1, <1>2, <1>3, RowSet, Zenon DEF TerritoryInv
<1>5. PICK j : j = Job("retire", "destroy", k, 0, 0, row[k].lease)
  OBVIOUS
<1>6. j \in Jobs /\ j.op = "retire" /\ j.pc = "destroy" /\ j.id = k /\ j.lease = row[k].lease
  <2>1. k \in Nat /\ row[k].lease \in Nat
    BY <1>1, RowUpdates DEF TerritoryBounds, CustodyIds
  <2> QED
    BY <1>5, <2>1 DEF Job, Jobs, Ops, Pcs
<1>7. job' \in [Threads -> Jobs] /\ job'[t] = j /\ \A u \in Threads : u # t => job'[u] = job[u]
  BY <1>1, <1>5, <1>6 DEF TerritoryInv, TerritoryType
<1>8. TerritoryType'
  BY <1>1, <1>4, <1>7 DEF TerritoryInv, TerritoryType
<1>9. JobOk(t)' /\ CalmJob(t)'
  BY <1>1, <1>3, <1>4, <1>6, <1>7 DEF JobOk, CalmJob
<1>10. Calm => CalmMoved(k)
  BY <1>1, <1>3, <1>4 DEF Calm, CalmRow, CalmMoved, Kept, TerritoryInv, RowOk, Idled, Uses
<1> QED
  BY <1>1, <1>2, <1>3, <1>7, <1>8, <1>9, <1>10, RowKeeps, Zenon DEF Keeps, Live

LEMMA RetiredKeeps ==
    ASSUME TerritoryInv, NEW t \in Threads, RetireCommit(t)
    PROVE  Keeps
<1>1. PICK k : k = job[t].id
  OBVIOUS
<1>2. /\ job[t].op = "retire" /\ job[t].pc = "commit" /\ EndJob(t)
      /\ UNCHANGED <<lease, attachment, served, crashes, corruptions>>
  BY DEF RetireCommit
<1>3. /\ k \in CustodyIds /\ row[k] \in Rows /\ row[k].phase # "none"
      /\ lease[row[k].lease] = "destroyed"
  BY <1>1, <1>2, Zenon DEF TerritoryInv, TerritoryType, JobOk
<1>4. PICK r : /\ row' = [row EXCEPT ![k] = r] /\ SameRow(row[k], r) /\ r.damage = row[k].damage
               /\ r.phase = row[k].phase \/ (row[k].phase = "retiring" /\ r.phase = "retired")
  <2>1. row' = [row EXCEPT ![k] = IF row[k].phase = "retiring" THEN Retired(row[k]) ELSE row[k]]
    BY <1>1, <1>3 DEF RetireCommit, TerritoryInv, TerritoryType
  <2> QED
    <3>1. SameRow(row[k], row[k])
      BY <1>3 DEF SameRow
    <3>2. PICK r : r = Retired(row[k])
      OBVIOUS
    <3>3. SameRow(row[k], r) /\ r.phase = "retired" /\ r.damage = row[k].damage
      BY <1>3, <3>2, RowUpdates, RowUnharmed, Zenon
    <3> QED
      BY <2>1, <3>1, <3>2, <3>3, Zenon
<1>5. row' \in [CustodyIds -> Rows] /\ row'[k] = r
  BY <1>3, <1>4, RowSet, Zenon DEF TerritoryInv
<1>6. job' \in [Threads -> Jobs] /\ \A u \in Threads : job'[u] = job[u] \/ (JobOk(u)' /\ CalmJob(u)')
  BY <1>2, JobEnded DEF TerritoryInv
<1>7. TerritoryType'
  BY <1>2, <1>5, <1>6 DEF TerritoryInv, TerritoryType
<1>8. Calm => CalmMoved(k)
  BY <1>2, <1>3, <1>4, <1>5 DEF Calm, CalmRow, CalmMoved, Kept
<1> QED
  BY <1>2, <1>3, <1>4, <1>6, <1>7, <1>8, RowKeeps, Zenon DEF Keeps
LEMMA ReclaimKeeps ==
    ASSUME TerritoryInv, TerritoryBounds, NEW t \in Threads, NEW k \in CustodyIds, NEW o \in Owners,
           NEW a \in Attachments, BeginReclaim(t, k, o, a)
    PROVE  Keeps
<1>1. /\ row[k] \in Rows /\ row[k].phase # "none" /\ served' = TRUE /\ UNCHANGED <<lease, crashes, corruptions>>
  BY DEF BeginReclaim, TerritoryInv, TerritoryType
<1>2. CASE /\ row[k].damage # "none" /\ UNCHANGED <<job, attachment>>
           /\ row' = [row EXCEPT ![k] =
                         IF OperationFree(k, row[k].lease) THEN Salvaged(row[k]) ELSE row[k]]
  <2>1. PICK r : r = IF OperationFree(k, row[k].lease) THEN Salvaged(row[k]) ELSE row[k]
    OBVIOUS
  <2>2. /\ SameRow(row[k], r) /\ r.phase # "none"
        /\ \/ r.phase = row[k].phase
           \/ r.phase \in {"retiring", "quarantined"} /\ OperationFree(k, row[k].lease)
    BY <1>1, <2>1, RowSalvaged DEF SameRow
  <2>3. row' \in [CustodyIds -> Rows]
    BY <1>2, <2>1, <2>2, RowSet, Zenon DEF TerritoryInv
  <2>4. TerritoryType' /\ ~Calm
    BY <1>1, <1>2, <2>3 DEF TerritoryInv, TerritoryType, Calm, CalmRow
  <2> QED
    BY <1>1, <1>2, <2>1, <2>2, <2>4, RowKeeps, Zenon DEF Keeps
<1>3. CASE /\ row[k].phase = "retained" /\ UNCHANGED <<job, attachment>>
           /\ row' = [row EXCEPT ![k] = Phased(row[k], "retiring")]
  <2>1. PICK r : r = Phased(row[k], "retiring")
    OBVIOUS
  <2>2. SameRow(row[k], r) /\ r.phase = "retiring" /\ r.damage = row[k].damage
    BY <1>1, <2>1, RowUpdates, RowUnharmed DEF Phases
  <2>3. row' \in [CustodyIds -> Rows] /\ row'[k] = r /\ row'[k].lease = row[k].lease
    BY <1>3, <2>1, <2>2, RowSet, Zenon DEF TerritoryInv
  <2>4. TerritoryType'
    BY <1>1, <1>3, <2>3 DEF TerritoryInv, TerritoryType
  <2>5. Calm => CalmMoved(k)
    BY <1>1, <1>3, <2>2, <2>3, Zenon DEF Calm, CalmRow, CalmMoved, Kept, TerritoryInv, RowOk, Idled, Uses
  <2> QED
    BY <1>1, <1>3, <2>1, <2>2, <2>4, <2>5, RowKeeps, Zenon DEF Keeps, Live
<1>4. CASE /\ row[k].phase = "retained" /\ attachment[a].state = "unborn"
           /\ row' = [row EXCEPT ![k] = Claimed(row[k], a)]
           /\ attachment' = [attachment EXCEPT ![a] =
                                Binding("claimed", row[k].lease, attachment[row[k].source].epoch + 1)]
           /\ job' = [job EXCEPT ![t] = Job("reclaim", "attach", k, a, row[k].gen, row[k].lease)]
  <2>0. PICK l, e, gen : l = row[k].lease /\ e = attachment[row[k].source].epoch + 1 /\ gen = row[k].gen
    OBVIOUS
  <2>1. PICK r, b, j : /\ r = Claimed(row[k], a) /\ b = Binding("claimed", l, e)
                       /\ j = Job("reclaim", "attach", k, a, gen, l)
    OBVIOUS
  <2>2. l \in Nat /\ e \in Nat /\ gen \in Nat /\ a \in Nat /\ k \in Nat /\ Opened(l) /\ row[k].source \in Attachments
    <3>1. row[k].source \in Attachments /\ Opened(l)
      BY <1>1, <2>0 DEF TerritoryInv, RowOk
    <3> QED
      BY <1>1, <2>0, <3>1, RowUpdates, BindingMade
         DEF TerritoryInv, TerritoryType, TerritoryBounds, Attachments, CustodyIds
  <2>3. SameRow(row[k], r) /\ r.phase = "claiming" /\ r.damage = row[k].damage
    BY <1>1, <2>1, <2>2, RowUpdates, RowUnharmed, Zenon
  <2>4. b \in Bindings /\ b.state = "claimed" /\ b.lease = l
    BY <2>1, <2>2 DEF Binding, Bindings, States
  <2>5. j \in Jobs /\ j.op = "reclaim" /\ j.id = k /\ j.att = a /\ j.lease = l
    BY <2>1, <2>2 DEF Job, Jobs, Ops, Pcs
  <2>6. /\ row' \in [CustodyIds -> Rows] /\ row'[k] = r
        /\ row'[k].lease = l /\ row'[k].source = row[k].source
        /\ \A i \in CustodyIds : i # k => row'[i] = row[i]
    BY <1>4, <2>0, <2>1, <2>3, RowSet, Zenon DEF TerritoryInv
  <2>7. /\ attachment' \in [Attachments -> Bindings] /\ attachment'[a] = b
        /\ \A c \in Attachments : c # a => attachment'[c] = attachment[c]
    BY <1>4, <2>0, <2>1, <2>4, Zenon DEF TerritoryInv, TerritoryType
  <2>8. job' \in [Threads -> Jobs] /\ job'[t] = j /\ \A u \in Threads : u # t => job'[u] = job[u]
    BY <1>4, <2>0, <2>1, <2>5 DEF TerritoryInv, TerritoryType
  <2>9. TerritoryType' /\ TerritoryGrows
    BY <1>1, <1>4, <2>0, <2>3, <2>6, <2>7, <2>8 DEF TerritoryInv, TerritoryType, TerritoryGrows
  <2>10. JobOk(t)' /\ CalmJob(t)'
    BY <1>1, <2>3, <2>4, <2>5, <2>6, <2>7, <2>8 DEF JobOk, CalmJob
  <2>11. RowMoved(k) /\ StateMoved(a) /\ CalmTurn(a) /\ CalmStart
    BY <1>1, <1>4, <2>0, <2>2, <2>3, <2>4, <2>6, <2>7, Zenon
       DEF RowMoved, StateMoved, CalmTurn, CalmStart, Kept, Live, Opened
  <2>12. TerritoryInv' /\ FenceKept
    BY <1>1, <1>4, <2>6, <2>7, <2>8, <2>9, <2>10, <2>11, TerritoryAssembled, FenceAssembled
  <2>13. Calm => CalmMoved(k)
    BY <1>1, <1>4, <2>3, <2>6, Zenon DEF Calm, CalmRow, CalmMoved, Kept
  <2> QED
    BY <1>1, <2>6, <2>7, <2>8, <2>9, <2>10, <2>11, <2>12, <2>13, CalmAssembled, Zenon DEF Keeps
<1> QED
  BY <1>2, <1>3, <1>4
     DEF BeginReclaim, Readable, Claimable, SetPhase,
         IsNext, Unborn

\* ReclaimFails and ReclaimCommit: one row, its attachment and the end of the call.
LEMMA ClaimEnds ==
    ASSUME TerritoryInv, NEW t \in Threads, job[t].op = "reclaim", EndJob(t),
           NEW p \in Phases, NEW s \in {"open", "dead"},
           SetPhase(job[t].id, p), SetState(job[t].att, s),
           p = row[job[t].id].phase \/ (row[job[t].id].phase = "claiming" /\ p \in {"attached", "retiring"}),
           s = "open" => row[job[t].id].phase = "claiming" /\ p = "attached",
           UNCHANGED <<lease, served, crashes, corruptions>>
    PROVE  Keeps
<1>0. PICK k, a : k = job[t].id /\ a = job[t].att
  OBVIOUS
<1>1. /\ k \in CustodyIds /\ a \in Attachments
      /\ row[k] \in Rows /\ row[k].phase # "none" /\ attachment[a].state # "unborn"
      /\ row[k].lease = attachment[a].lease /\ row[k].lease \in Leases /\ row[k].source \in Attachments
  BY <1>0, Zenon DEF TerritoryInv, TerritoryType, JobOk, RowOk, Opened
<1>2. PICK r : r = Phased(row[k], p)
  OBVIOUS
<1>3. SameRow(row[k], r) /\ r.phase = p /\ r.damage = row[k].damage /\ row' = [row EXCEPT ![k] = r]
  BY <1>0, <1>1, <1>2, RowUpdates, RowUnharmed, Zenon DEF SetPhase
<1>4. /\ row' \in [CustodyIds -> Rows] /\ row'[k] = r
      /\ row'[k].lease = row[k].lease /\ row'[k].source = row[k].source
      /\ \A j \in CustodyIds : j # k => row'[j] = row[j]
  BY <1>1, <1>3, RowSet, Zenon DEF TerritoryInv
<1>5. /\ attachment' \in [Attachments -> Bindings]
      /\ attachment'[a].state = s /\ attachment'[a].lease = attachment[a].lease
      /\ \A b \in Attachments : b # a => attachment'[b] = attachment[b]
  BY <1>0, <1>1, StateSet, Zenon DEF TerritoryInv, States
<1>6. /\ job' \in [Threads -> Jobs] /\ JobOk(t)' /\ CalmJob(t)'
      /\ \A u \in Threads : u # t => job'[u] = job[u]
  BY JobEnded, Zenon DEF TerritoryInv
<1>7. TerritoryType' /\ TerritoryGrows
  BY <1>0, <1>1, <1>3, <1>4, <1>5, <1>6, Zenon DEF TerritoryInv, TerritoryType, TerritoryGrows
<1>8. row[k].phase = "claiming" => Idled(row[k].lease)
  BY <1>1, Zenon DEF TerritoryInv, RowOk, Kept, Idled
<1>9. StateMoved(a)
  <2>1. ASSUME s = "open", NEW b \in Attachments, Uses(b, attachment[a].lease)' PROVE b = a
    BY <1>0, <1>1, <1>5, <1>8, <2>1, Zenon DEF Uses, Idled
  <2>2. ASSUME s = "open", NEW j \in CustodyIds, Kept(j)' PROVE row'[j].lease # attachment'[a].lease
    <3>1. j # k /\ Kept(j) /\ row'[j] = row[j]
      BY <1>0, <1>3, <1>4, <2>2, Zenon DEF Kept
    <3>2. Live(j) /\ Live(k)
      BY <1>0, <2>2, <3>1 DEF Live, Kept
    <3>3. row[j].lease # row[k].lease
      BY <1>1, <3>1, <3>2 DEF TerritoryInv
    <3> QED
      BY <1>1, <1>5, <3>1, <3>3
  <2> QED
    BY <1>1, <1>5, <2>1, <2>2, Zenon DEF StateMoved
<1>10. RowMoved(k)
  BY <1>0, <1>1, <1>3, <1>4, Zenon DEF RowMoved, Kept, Live, TerritoryInv, RowOk
<1>11. TerritoryInv' /\ FenceKept
  BY <1>0, <1>3, <1>4, <1>5, <1>6, <1>7, <1>9, <1>10, TerritoryAssembled, FenceAssembled, Zenon
<1>12. ASSUME Calm PROVE CalmMoved(k) /\ CalmTurn(a) /\ CalmStart
  <2>1. CalmMoved(k)
    <3>1. p = "retiring" /\ row[k].phase # "retiring" => Idled(row[k].lease)'
      BY <1>0, <1>4, <1>5, <1>8, Zenon DEF Idled, Uses
    <3> QED
      BY <1>0, <1>1, <1>3, <1>4, <1>12, <3>1, Zenon DEF CalmMoved, Calm, CalmRow, Kept
  <2>2. CalmTurn(a)
    <3> SUFFICES ASSUME s = "open"
                 PROVE  /\ lease'[attachment'[a].lease] # "destroyed"
                        /\ \A j \in CustodyIds :
                              row'[j].phase # "none" /\ row'[j].lease = attachment'[a].lease =>
                                 served' /\ row'[j].phase # "retiring"
                        /\ \A b \in Attachments :
                              attachment'[b].state = "uncertain" => attachment'[b].lease # attachment'[a].lease
      BY <1>5 DEF CalmTurn
    <3>1. Kept(k) /\ served /\ row[k].phase = "claiming" /\ p = "attached"
      BY <1>0, <1>12, Zenon DEF Kept, Calm, CalmJob
    <3>2. lease'[attachment'[a].lease] # "destroyed"
      BY <1>1, <1>5, <1>12, <3>1, Zenon DEF Calm, CalmRow
    <3>3. \A j \in CustodyIds : row'[j].lease = attachment'[a].lease => row'[j].phase # "retiring"
      BY <1>1, <1>3, <1>4, <1>5, <3>1, Zenon DEF TerritoryInv, Live, Kept
    <3>4. \A b \in Attachments :
             attachment'[b].state = "uncertain" => attachment'[b].lease # attachment'[a].lease
      BY <1>1, <1>5, <1>12, <3>1, Zenon DEF Calm, Given
    <3> QED
      BY <3>1, <3>2, <3>3, <3>4, Zenon
  <2> QED
    BY <2>1, <2>2, Zenon DEF CalmStart
<1> QED
  BY <1>4, <1>5, <1>6, <1>7, <1>11, <1>12, CalmAssembled, Zenon DEF Keeps
LEMMA ReclaimEndKeeps ==
    ASSUME TerritoryInv, NEW t \in Threads, ReclaimFails(t) \/ ReclaimCommit(t)
    PROVE  Keeps
<1>1. job[t].op = "reclaim" /\ EndJob(t) /\ UNCHANGED <<lease, served, crashes, corruptions>>
  BY DEF ReclaimFails, ReclaimCommit
<1>2. row[job[t].id].phase \in Phases
  BY <1>1, RowUpdates DEF TerritoryInv, TerritoryType, JobOk
<1>3. CASE ReclaimFails(t)
  <2>1. PICK p : p = IF row[job[t].id].phase = "claiming" THEN "retiring" ELSE row[job[t].id].phase
    OBVIOUS
  <2>2. p \in Phases /\ SetPhase(job[t].id, p) /\ SetState(job[t].att, "dead")
    BY <1>2, <1>3, <2>1 DEF ReclaimFails, Phases
  <2> QED
    BY <1>1, <2>1, <2>2, ClaimEnds, Zenon
<1>4. CASE ReclaimCommit(t)
  <2>1. PICK p, s : /\ p = IF row[job[t].id].phase = "claiming" THEN "attached" ELSE row[job[t].id].phase
                    /\ s = IF row[job[t].id].phase = "claiming" THEN "open" ELSE "dead"
    OBVIOUS
  <2>2. p \in Phases /\ SetPhase(job[t].id, p) /\ SetState(job[t].att, s)
    BY <1>2, <1>4, <2>1 DEF ReclaimCommit, Phases
  <2> QED
    BY <1>1, <2>1, <2>2, ClaimEnds
<1> QED
  BY <1>3, <1>4

LEMMA AttachKeeps ==
    ASSUME TerritoryInv, NEW t \in Threads, ReclaimAttach(t)
    PROVE  Keeps
<1>1. /\ job[t].op = "reclaim" /\ job' = [job EXCEPT ![t] = Moved(job[t], "commit")]
      /\ UNCHANGED <<row, lease, attachment, served, crashes, corruptions>>
  BY DEF ReclaimAttach, SetPc
<1>2. PICK j : j = Moved(job[t], "commit")
  OBVIOUS
<1>3. j \in Jobs /\ j.op = job[t].op /\ j.id = job[t].id /\ j.att = job[t].att /\ j.lease = job[t].lease
  BY <1>2, JobMade, Zenon DEF TerritoryInv, TerritoryType, Pcs
<1>4. job' \in [Threads -> Jobs] /\ job'[t] = j /\ \A u \in Threads : u # t => job'[u] = job[u]
  BY <1>1, <1>2, <1>3 DEF TerritoryInv, TerritoryType
<1>5. TerritoryType' /\ TerritoryGrows /\ CalmStart
  BY <1>1, <1>4 DEF TerritoryInv, TerritoryType, TerritoryGrows, CalmStart
<1>6. JobOk(t)'
  BY <1>1, <1>3, <1>4, Zenon DEF TerritoryInv, JobOk
<1>7. TerritoryInv' /\ FenceKept
  BY <1>1, <1>4, <1>5, <1>6, TerritoryAssembled, FenceAssembled, Zenon
<1>8. Calm => CalmJob(t)'
  BY <1>1, <1>3, <1>4, Zenon DEF Calm, CalmJob
<1> QED
  BY <1>1, <1>4, <1>5, <1>7, <1>8, CalmAssembled DEF Keeps

LEMMA DestroyKeeps ==
    ASSUME TerritoryInv, NEW t \in Threads, RetireDestroy(t)
    PROVE  Keeps
<1>1. /\ job[t].op = "retire" /\ UNCHANGED <<row, attachment, served, crashes, corruptions>>
      /\ \/ lease' = [lease EXCEPT ![job[t].lease] = "destroyed"]
         \/ lease' = lease /\ EndJob(t)
      /\ job' = [job EXCEPT ![t] = Moved(job[t], "commit")] \/ EndJob(t)
  BY DEF RetireDestroy, SetPc
<1>2. PICK k, l : k = job[t].id /\ l = job[t].lease
  OBVIOUS
<1>3. k \in CustodyIds /\ l \in Leases /\ row[k].phase # "none" /\ row[k].lease = l
  BY <1>1, <1>2, Zenon DEF TerritoryInv, JobOk, RowOk, Opened
<1>4. /\ \A m \in Leases : lease'[m] = lease[m] \/ (m = l /\ lease'[m] = "destroyed")
      /\ lease' \in [Leases -> {"absent", "ready", "terminal", "destroyed"}]
      /\ lease' # lease \/ ~EndJob(t) => lease'[l] = "destroyed"
  BY <1>1, <1>2, <1>3, Zenon DEF TerritoryInv, TerritoryType
<1>5. PICK j : j = Moved(job[t], "commit")
  OBVIOUS
<1>6. j \in Jobs /\ j.op = job[t].op /\ j.pc = "commit" /\ j.id = k /\ j.att = job[t].att /\ j.lease = l
  BY <1>2, <1>5, JobMade, Zenon DEF TerritoryInv, TerritoryType, Pcs
<1>7. /\ job' \in [Threads -> Jobs] /\ \A u \in Threads : u # t => job'[u] = job[u]
      /\ JobOk(t)' /\ (Calm => CalmJob(t)')
  <2>1. CASE EndJob(t)
    BY <2>1, JobEnded, Zenon DEF TerritoryInv
  <2>2. CASE ~EndJob(t)
    <3>1. job' \in [Threads -> Jobs] /\ job'[t] = j /\ \A u \in Threads : u # t => job'[u] = job[u]
      BY <1>1, <1>5, <1>6, <2>2 DEF TerritoryInv, TerritoryType
    <3> QED
      BY <1>1, <1>2, <1>3, <1>4, <1>6, <2>2, <3>1, Zenon DEF JobOk, Calm, CalmJob
  <2> QED
    BY <2>1, <2>2
<1>8. TerritoryType' /\ TerritoryGrows /\ CalmStart
  BY <1>1, <1>4, <1>7 DEF TerritoryInv, TerritoryType, TerritoryGrows, CalmStart
<1>9. TerritoryInv' /\ FenceKept
  BY <1>1, <1>7, <1>8, TerritoryAssembled, FenceAssembled, Zenon
<1>10. ASSUME Calm, lease'[l] = "destroyed", lease[l] # "destroyed" PROVE CalmLease(l)
  <2>1. row[k].phase = "retiring" /\ Idled(l)
    BY <1>1, <1>2, <1>3, <1>10, Zenon DEF Calm, CalmJob, CalmRow, TerritoryInv, RowOk
  <2>2. \A i \in CustodyIds : Kept(i) => row[i].lease # l
    BY <1>3, <2>1, Zenon DEF TerritoryInv, Live, Kept
  <2> QED
    BY <1>1, <2>1, <2>2 DEF CalmLease, Idled, Uses, Kept
<1>11. Calm => \A m \in Leases : lease'[m] = lease[m] \/ CalmLease(m)
  BY <1>4, <1>10
<1> QED
  BY <1>1, <1>7, <1>8, <1>9, <1>11, CalmAssembled, Zenon DEF Keeps

LEMMA RecoverKeeps ==
    ASSUME TerritoryInv, Recover
    PROVE  Keeps
<1>1. /\ row' = [k \in CustodyIds |-> Recovered(k)]
      /\ served' = TRUE /\ UNCHANGED <<lease, attachment, job, crashes, corruptions>>
      /\ RecoverAtAnyTime \/ ~served
  BY DEF Recover
<1>2. ASSUME NEW k \in CustodyIds
      PROVE  /\ row'[k] = Recovered(k) /\ row'[k] \in Rows /\ SameRow(row[k], row'[k])
             /\ \/ row'[k] = row[k]
                \/ /\ row[k].phase \notin {"none", "retired", "retiring", "quarantined"}
                   /\ row'[k].phase = "retiring" /\ row'[k].damage = row[k].damage
                \/ /\ row[k].damage # "none" /\ ~Refused(k)
                   /\ row'[k].phase \in {"quarantined", "retiring"}
  <2>1. row[k] \in Rows
    BY DEF TerritoryInv, TerritoryType
  <2>2. CASE row[k].damage # "none" /\ ~Refused(k) /\ Recovered(k) = Salvaged(row[k])
    BY <1>1, <2>1, <2>2, RowSalvaged DEF SameRow
  <2>3. CASE Fenced(row[k]) /\ Recovered(k) = Phased(row[k], "retiring")
    <3>1. row[k].phase \in {"releasing", "claiming", "attached", "retained"}
      BY <2>3 DEF Fenced
    <3>2. SameRow(row[k], Phased(row[k], "retiring"))
      BY <2>1, RowUpdates DEF Phases
    <3>3. Phased(row[k], "retiring").phase = "retiring" /\ Phased(row[k], "retiring").damage = row[k].damage
      BY <2>1, RowUpdates, RowUnharmed DEF Phases
    <3> QED
      BY <1>1, <2>3, <3>1, <3>2, <3>3 DEF SameRow
  <2>4. CASE Recovered(k) = row[k]
    BY <1>1, <2>1, <2>4 DEF SameRow
  <2> QED
    BY <2>2, <2>3, <2>4, Zenon DEF Recovered, Readable
<1>3. TerritoryType' /\ TerritoryGrows
  <2>1. row' \in [CustodyIds -> Rows]
    BY <1>1, <1>2
  <2> QED
    BY <1>1, <1>2, <2>1 DEF TerritoryInv, TerritoryType, TerritoryGrows, SameRow
<1>4. ASSUME NEW k \in CustodyIds, row'[k] # row[k]
      PROVE  RowMoved(k)
  <2>1. row[k].phase # "none" /\ row'[k].phase \in {"quarantined", "retiring"}
    BY <1>2, <1>4 DEF TerritoryInv, RowOk
  <2>2. row'[k].source \in Attachments /\ row'[k].lease = row[k].lease
    BY <1>2, <2>1 DEF TerritoryInv, RowOk, SameRow
  <2>3. ASSUME ~Live(k), NEW j \in CustodyIds \ {k}, Live(j)', row'[j].lease = row'[k].lease PROVE FALSE
    <3>1. row[k].damage # "none" /\ ~Refused(k) /\ row[j].lease = row[k].lease
      BY <1>2, <1>4, <2>2, <2>3 DEF Live, SameRow
    <3>2. row[j].phase = "retired" /\ ~(j < k /\ row[j].damage # "none")
      BY <3>1 DEF Refused, Readable
    <3>3. row[j].damage # "none" /\ ~Refused(j)
      BY <1>2, <2>3, <3>2 DEF Live
    <3>4. ~(k < j) /\ ~(j < k)
      BY <3>1, <3>2, <3>3 DEF Refused, Readable
    <3> QED
      BY <2>3, <3>4 DEF CustodyIds
  <2> QED
    BY <2>1, <2>2, <2>3 DEF RowMoved, Kept
<1>5. TerritoryInv' /\ FenceKept
  BY <1>1, <1>2, <1>3, <1>4, TerritoryAssembled, FenceAssembled
<1>6. ASSUME Careful, Calm, NEW k \in CustodyIds PROVE row'[k] = row[k] \/ CalmMoved(k)
  <2>1. row[k].phase # "none" => Idled(row[k].lease)
    BY <1>1, <1>6 DEF Careful, Calm, CalmRow
  <2>2. row[k].phase # "none" => Idled(row[k].lease)'
    BY <1>1, <1>2, <2>1 DEF Idled, Uses, SameRow
  <2> QED
    BY <1>2, <1>6, <2>2, Zenon DEF CalmMoved, Calm, CalmRow, Kept
<1>7. CalmStart
  BY <1>1 DEF CalmStart
<1> QED
  BY <1>1, <1>3, <1>5, <1>6, <1>7, CalmAssembled DEF Keeps

LEMMA CrashKeeps ==
    ASSUME TerritoryInv, Crash
    PROVE  Keeps
<1>1. /\ job' = [t \in Threads |-> NoJob] /\ served' = FALSE /\ crashes' = crashes + 1
      /\ attachment' = [a \in Attachments |->
                           IF attachment[a].state = "unborn" THEN attachment[a] ELSE Became(a, "dead")]
      /\ UNCHANGED <<row, lease, corruptions>>
  BY DEF Crash
<1>2. ASSUME NEW a \in Attachments
      PROVE  /\ attachment'[a] \in Bindings
             /\ attachment'[a] = attachment[a] \/ (attachment[a].state # "unborn" /\ attachment'[a].state = "dead")
             /\ attachment'[a].state # "open" /\ attachment'[a].state # "uncertain"
             /\ attachment'[a].lease = attachment[a].lease
  BY <1>1, BindingTurned DEF TerritoryInv, TerritoryType, States
<1>3. job' \in [Threads -> Jobs] /\ \A t \in Threads : job'[t].op = "none"
  BY <1>1, JobMade
<1>4. TerritoryType' /\ TerritoryGrows
  <2>1. attachment' \in [Attachments -> Bindings]
    BY <1>1, <1>2
  <2> QED
    <3>1. TerritoryType'
      <4>1. served' \in BOOLEAN
        BY <1>1, Zenon
      <4>2. crashes' = crashes + 1
        BY <1>1
      <4>3. crashes' \in Nat
        BY <4>2 DEF TerritoryInv, TerritoryType
      <4>4. row' = row /\ lease' = lease /\ corruptions' = corruptions
        BY <1>1
      <4> QED
        BY <1>3, <2>1, <4>1, <4>3, <4>4, Zenon DEF TerritoryInv, TerritoryType
    <3>2. row' = row /\ lease' = lease
      BY <1>1
    <3>3. TerritoryGrows
      BY <1>2, <3>2, Zenon DEF TerritoryGrows
    <3> QED
      BY <3>1, <3>3
<1>5. /\ \A a \in Attachments : attachment'[a] = attachment[a] \/ StateMoved(a)
      /\ \A a \in Attachments : CalmTurn(a)
      /\ \A t \in Threads : JobOk(t)' /\ CalmJob(t)'
      /\ CalmStart
  BY <1>2, <1>3 DEF StateMoved, CalmTurn, CalmStart, JobOk, CalmJob
<1>6. TerritoryInv' /\ FenceKept
  BY <1>1, <1>4, <1>5, TerritoryAssembled, FenceAssembled, Zenon
<1> QED
  BY <1>1, <1>4, <1>5, <1>6, CalmAssembled DEF Keeps
LEMMA TerritoryStep ==
    ASSUME TerritoryBounds, TerritoryInv, [Next]_vars
    PROVE  Keeps
<1>1. CASE UNCHANGED vars
  <2>1. TerritoryInv' /\ FenceKept
    BY <1>1, FenceAssembled, Zenon
       DEF vars, TerritoryInv, TerritoryType, RowOk, JobOk, Live, Kept, Opened, Uses,
           FenceKept, CustodyIds, Attachments, Leases
  <2>2. Calm => Calm'
    BY <1>1
       DEF vars, Calm, CalmRow, CalmJob, Given, Idled, Uses, Kept, OpenHasTerritory,
           CustodyIds, Attachments
  <2> QED
    BY <2>1, <2>2 DEF Keeps
<1>2. ASSUME NEW a \in Attachments, NEW l \in Leases, OpenAttachment(a, l) PROVE Keeps
  BY <1>2, OpenKeeps
<1>3. ASSUME NEW a \in Attachments, SettleAttachment(a) PROVE Keeps
  BY <1>3, SettleKeeps
<1>4. ASSUME NEW l \in Leases, LoseLease(l) PROVE Keeps
  BY <1>4, LoseKeeps
<1>5. ASSUME NEW t \in Threads, NEW k \in CustodyIds, NEW o \in Owners, NEW a \in Attachments,
             BeginRelease(t, k, o, a) \/ BeginReclaim(t, k, o, a)
      PROVE  Keeps
  BY <1>5, ReleaseKeeps, ReclaimKeeps
<1>6. ASSUME NEW t \in Threads, NEW k \in CustodyIds, NEW o \in Owners, BeginRetire(t, k, o)
      PROVE  Keeps
  BY <1>6, RetireKeeps
<1>7. ASSUME NEW t \in Threads, FailRelease(t) \/ AcceptRelease(t) PROVE Keeps
  BY <1>7, FailKeeps, AcceptKeeps
<1>8. ASSUME NEW t \in Threads,
             ReclaimAttach(t) \/ ReclaimFails(t) \/ ReclaimCommit(t)
      PROVE  Keeps
  BY <1>8, AttachKeeps, ReclaimEndKeeps
<1>9. ASSUME NEW t \in Threads, RetireDestroy(t) \/ RetireCommit(t) PROVE Keeps
  BY <1>9, DestroyKeeps, RetiredKeeps
<1>10. CASE Recover \/ Crash
  BY <1>10, RecoverKeeps, CrashKeeps
<1>11. ASSUME NEW k \in CustodyIds, Expire(k) PROVE Keeps
  BY <1>11, ExpireKeeps
<1>12. ASSUME NEW k \in CustodyIds, NEW d \in {"body", "identity"}, Corrupt(k, d) PROVE Keeps
  BY <1>12, CorruptKeeps
<1> QED
  BY <1>1, <1>2, <1>3, <1>4, <1>5, <1>6, <1>7, <1>8, <1>9, <1>10, <1>11, <1>12 DEF Next

\* With any number of threads, ids, leases and attachments, over any crashes,
\* recoveries at any time and damaged rows, a retained territory has no
\* attachment that can use it and any territory at most one, and a retired row
\* speaks of a destroyed territory.
THEOREM HolderAlwaysExclusive ==
    ASSUME TerritoryBounds
    PROVE  Spec => [](HolderIsExclusive /\ RetiredIsGone)
<1>1. Init => TerritoryInv
  BY TerritoryInit
<1>2. TerritoryInv /\ [Next]_vars => TerritoryInv'
  BY TerritoryStep DEF Keeps
<1>3. TerritoryInv => HolderIsExclusive /\ RetiredIsGone
  <2> SUFFICES ASSUME TerritoryInv PROVE HolderIsExclusive /\ RetiredIsGone
    OBVIOUS
  <2>1. ASSUME NEW l \in Leases, NEW a \in Holders(l), NEW b \in Holders(l)
        PROVE  a = b
    BY DEF TerritoryInv, Uses, Holders
  <2>2. ASSUME NEW k \in CustodyIds, Kept(k) PROVE Holders(row[k].lease) = {}
    BY <2>2 DEF TerritoryInv, RowOk, Kept, Uses, Holders
  <2>3. RetiredIsGone
    BY DEF TerritoryInv, RowOk, RetiredIsGone
  <2> QED
    BY <2>1, <2>2, <2>3, Zenon DEF HolderIsExclusive, Kept
<1> QED
  BY <1>1, <1>2, <1>3, PTL DEF Spec

\* A territory fenced for destruction never comes back into use.
THEOREM FencesAreKept ==
    ASSUME TerritoryBounds
    PROVE  Spec => FencesKept
<1>1. Init => TerritoryInv
  BY TerritoryInit
<1>2. TerritoryInv /\ [Next]_vars => TerritoryInv' /\ FenceKept
  BY TerritoryStep DEF Keeps
<1> QED
  BY <1>1, <1>2, PTL DEF Spec, FencesKept

\* A host that calls recover only before it serves, over a ledger nobody damages,
\* never destroys a territory under an attachment in use.
THEOREM TerritoriesOutliveUse ==
    ASSUME TerritoryBounds, Careful
    PROVE  Spec => []OpenHasTerritory
<1>1. Init => TerritoryInv /\ Calm
  <2> SUFFICES ASSUME Init PROVE TerritoryInv /\ Calm
    OBVIOUS
  <2>1. \A k \in CustodyIds : row[k].phase = "none" /\ row[k].damage = "none"
    BY RowMade DEF Init, NoRow
  <2>2. \A a \in Attachments : attachment[a].state = "unborn"
    BY BindingMade DEF Init, NoAttachment, States
  <2>3. \A t \in Threads : job[t].op = "none"
    BY JobMade DEF Init
  <2>4. Calm
    BY <2>1, <2>2, <2>3 DEF Calm, CalmRow, CalmJob, Given, Kept, OpenHasTerritory
  <2> QED
    BY <2>4, TerritoryInit
<1>2. TerritoryInv /\ Calm /\ [Next]_vars => TerritoryInv' /\ Calm'
  BY TerritoryStep DEF Keeps
<1>3. Calm => OpenHasTerritory
  BY DEF Calm
<1> QED
  BY <1>1, <1>2, <1>3, PTL DEF Spec

\* Custody keeps every territory to one holder, for all bounds: the two
\* theorems above, the second where the host is careful.
THEOREM CustodyAlwaysHolds ==
    ASSUME TerritoryBounds
    PROVE  Spec => []CustodyHolds
<1>1. CASE Careful
  <2>1. HolderIsExclusive /\ RetiredIsGone /\ OpenHasTerritory => CustodyHolds
    BY DEF CustodyHolds
  <2> QED
    BY <1>1, <2>1, HolderAlwaysExclusive, TerritoriesOutliveUse, PTL
<1>2. CASE ~Careful
  <2>1. HolderIsExclusive /\ RetiredIsGone => CustodyHolds
    BY <1>2 DEF CustodyHolds
  <2> QED
    BY <2>1, HolderAlwaysExclusive, PTL
<1> QED
  BY <1>1, <1>2
=============================================================================
