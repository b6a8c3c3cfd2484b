------------------------------ MODULE Instance ------------------------------
(***************************************************************************)
(* One live Instance: the single writer of its History.  Every operation   *)
(* validates, appends one batch (Fail may append two) and then advances    *)
(* the live state.  What the code raises on changes nothing, so it is a    *)
(* guard here.  The instant a caller passes is clamped to the watermark.   *)
(*                                                                         *)
(* An occurrence is [binding, scope, impure]; an activity's terminal       *)
(* outcome is an element of Results or of Failures.  A handler's result is *)
(* an envelope [tokens, closes, opens]: tokens per place and the delivery  *)
(* registrations <<source, key>> it closes and opens.                      *)
(***************************************************************************)
EXTENDS History

CONSTANTS
    InitialMarking,  \* Seq of <<place, tokens>>
    Handled,         \* [declared pure transition -> set of envelopes it may return]
    Results,         \* results an activity may complete with
    Failures,        \* failures an activity may end with
    Project,         \* [impure transition -> [Results -> envelope]]
    ProjectFailure,  \* [impure transition -> envelope, or None without project_failure]
    Identities,      \* delivery identities
    Payloads,        \* token sequences a delivery may carry
    Targets,         \* scope arguments of a delivery: generations, names or None
    Instants,        \* instants a caller may pass
    MaxHistory,      \* bound on the number of records
    MaxGenerations   \* bound on the generations of a scope name

VARIABLES
    history,
    boundaries,      \* lengths of the history at which an append ended
    queues,          \* _queues
    watermark,       \* _watermark
    armed,           \* _armed
    nextOccurrence,  \* _next_occurrence
    nextEntry,       \* _next_entry
    inFlight,        \* _in_flight
    activities,      \* _activity_occurrences
    cancelled,       \* _cancelled
    frozen,          \* _frozen_results
    terminal,        \* _terminal_activity
    quarantined,     \* _quarantined_activity
    accepted,        \* _accepted_identities
    active,          \* _active_scopes
    generations      \* _scope_generations

recorded == <<history, boundaries, watermark>>
firings == <<inFlight, activities, cancelled, frozen, terminal, quarantined>>
scopes == <<active, generations>>
minted == <<nextOccurrence, nextEntry>>
vars == <<recorded, queues, armed, minted, firings, accepted, scopes>>

\* f with k bound to v, and f without the keys of S.
Put(f, k, v) == [x \in DOMAIN f \cup {k} |-> IF x = k THEN v ELSE f[x]]
Drop(f, S) == [x \in DOMAIN f \ S |-> f[x]]

\* _instant.
Effective(at) == IF at > watermark THEN at ELSE watermark

\* Appends of one operation, at one instant; _advance follows the appends.
Append1(batch, instant) ==
    /\ Len(history) + Len(batch) <= MaxHistory
    /\ history' = history \o batch
    /\ boundaries' = boundaries \cup {Len(history) + Len(batch)}
    /\ watermark' = instant

Append2(first, batch, instant) ==
    /\ Len(history) + Len(first) + Len(batch) <= MaxHistory
    /\ history' = history \o first \o batch
    /\ boundaries' = boundaries \cup {Len(history) + Len(first), Len(history) + Len(first) + Len(batch)}
    /\ watermark' = instant

-----------------------------------------------------------------------------
(* Construction. *)

\* Instance.__init__: one batch with the identity, the initial tokens and a
\* default registration per source.
ConstructionBatch ==
    LET sources == SetToSeq(Sources)
    IN  <<[kind |-> "InstanceCreated", instant |-> 0]>>
        \o [i \in DOMAIN InitialMarking |->
              [kind |-> "TokensInitialized", place |-> InitialMarking[i][1],
               tokens |-> InitialMarking[i][2], entries |-> <<>>, scope |-> None, instant |-> 0]]
        \o [i \in DOMAIN sources |->
              [kind |-> "DeliveryRegistrationOpened", transition |-> sources[i], key |-> "default",
               occ |-> None, instant |-> 0]]

Init ==
    /\ history = ConstructionBatch
    /\ boundaries = {Len(ConstructionBatch)}
    /\ LET replayed == ReplayQueues(ConstructionBatch)
       IN  queues = replayed.queues /\ nextEntry = replayed.next
    /\ watermark = 0
    /\ armed = [s \in Sources |-> {"default"}]
    /\ nextOccurrence = 1
    /\ inFlight = <<>> /\ activities = <<>> /\ cancelled = <<>>
    /\ frozen = <<>> /\ terminal = <<>> /\ quarantined = <<>>
    /\ accepted = <<>>
    /\ active = {} /\ generations = [n \in ScopeNames |-> 0]

-----------------------------------------------------------------------------
(* Lifecycle scopes. *)

\* Generations are counted over the whole History, never reused after a close.
NextGeneration(name) == generations[name] + 1

\* Instance.open_scope.
OpenScope(name, at) ==
    LET scope == [name |-> name, generation |-> NextGeneration(name)]
    IN  /\ generations[name] < MaxGenerations
        /\ \A s \in active : s.name # name
        /\ Append1(<<[kind |-> "ScopeOpened", scope |-> scope, instant |-> Effective(at)]>>, Effective(at))
        /\ active' = active \cup {scope}
        /\ generations' = [generations EXCEPT ![name] = scope.generation]
        /\ UNCHANGED <<queues, armed, minted, firings, accepted>>

\* The firings of a generation that its end cancels.
Cancelling(scope) == {o \in DOMAIN inFlight : inFlight[o].scope = scope}

\* Mutant of ProjectionsSettled: the check is missing.
ProjectionsIgnored(occurrences) == TRUE

\* No outcome of these firings still awaits its projection.
ProjectionsSettled(occurrences) == occurrences \cap DOMAIN frozen = {}

\* _scope_closure, _apply_scope_terminal: refused while a frozen outcome of
\* the generation still awaits its projection; otherwise its queue entries
\* are discarded and its firings cancelled.
EndScope(record) ==
    /\ record.scope \in active
    /\ ProjectionsSettled(record.cancelled)
    /\ Append1(<<record>>, record.instant)
    /\ queues' = ApplyMovement(queues, record, <<>>)
    /\ inFlight' = Drop(inFlight, record.cancelled)
    /\ cancelled' = [o \in DOMAIN cancelled \cup record.cancelled |->
                        IF o \in record.cancelled THEN inFlight[o] ELSE cancelled[o]]
    /\ UNCHANGED <<armed, minted, activities, frozen, terminal, quarantined, accepted>>

\* Instance.close_scope.
CloseScope(scope, at) ==
    /\ EndScope([kind |-> "ScopeClosed", scope |-> scope, discarded |-> ScopedIds(queues, scope),
                 cancelled |-> Cancelling(scope), instant |-> Effective(at)])
    /\ active' = active \ {scope}
    /\ UNCHANGED generations

\* Mutant of ResetScope: the old generation's tokens stay queued.
ResetScopeKeepsTokens(scope, at) ==
    LET opened == [scope EXCEPT !.generation = @ + 1]
    IN  /\ scope.generation < MaxGenerations
        /\ EndScope([kind |-> "ScopeReset", scope |-> scope, opened |-> opened, discarded |-> {},
                     cancelled |-> Cancelling(scope), instant |-> Effective(at)])
        /\ active' = (active \ {scope}) \cup {opened}
        /\ generations' = [generations EXCEPT ![scope.name] = opened.generation]

\* Instance.reset_scope.
ResetScope(scope, at) ==
    LET opened == [scope EXCEPT !.generation = @ + 1]
    IN  /\ scope.generation < MaxGenerations
        /\ EndScope([kind |-> "ScopeReset", scope |-> scope, opened |-> opened,
                     discarded |-> ScopedIds(queues, scope),
                     cancelled |-> Cancelling(scope), instant |-> Effective(at)])
        /\ active' = (active \ {scope}) \cup {opened}
        /\ generations' = [generations EXCEPT ![scope.name] = opened.generation]

-----------------------------------------------------------------------------
(* Firing occurrences. *)

\* _begin_occurrence: the initiation, the begin, what each selection takes and
\* the activity request, in one batch.  Queue identities are recorded only
\* inside a scope.
BeginOccurrence(initiation, binding, picked, scope) ==
    LET t == binding.transition
        o == nextOccurrence
        fact(kind, place, tokens, entries) ==
            [kind |-> kind, place |-> place, tokens |-> tokens, occ |-> o, scope |-> scope,
             entries |-> IF scope = None THEN <<>> ELSE [k \in DOMAIN entries |-> entries[k].id],
             instant |-> initiation.instant]
        takes(kind, selections, offset) ==
            [i \in DOMAIN selections |->
                fact(kind, selections[i][1], selections[i][2], picked[offset + i])]
        begun(kind) == [kind |-> kind, transition |-> t, occ |-> o, scope |-> scope,
                        instant |-> initiation.instant]
        batch == <<initiation, begun("FiringBegun")>>
                   \o takes("TokensConsumed", binding.consumed, 0)
                   \o takes("TokensRead", binding.read, Len(binding.consumed))
                   \o (IF t \in Impure THEN <<begun("ActivityRequested")>> ELSE <<>>)
        occurrence == [binding |-> binding, scope |-> scope, impure |-> t \in Impure]
    IN  /\ Append1(batch, initiation.instant)
        /\ queues' = FoldLeft(LAMBDA q, r : ApplyMovement(q, r, <<>>), queues, batch)
        /\ nextOccurrence' = o + 1
        /\ inFlight' = Put(inFlight, o, occurrence)
        /\ activities' = IF t \in Impure THEN Put(activities, o, occurrence) ELSE activities
        /\ UNCHANGED <<armed, nextEntry, cancelled, frozen, terminal, quarantined, scopes>>

\* The lifecycle generations of the entries a begin takes.
Provenance(picked) ==
    UNION {{picked[i][k].scope : k \in DOMAIN picked[i]} : i \in DOMAIN picked} \ {None}

\* What begin requires of a binding beyond its shape: the tokens are there and
\* belong to at most one generation.
Beginnable(binding) ==
    LET taken == Taken(queues, binding)
    IN  taken.ok /\ Cardinality(Provenance(taken.picked)) <= 1

\* Instance.begin, for a candidate at the instant of the begin.
Begin(binding, at) ==
    LET picked == Taken(queues, binding).picked
    IN  /\ WellShaped(binding)
        /\ Beginnable(binding)
        /\ BeginOccurrence([kind |-> "CandidateSelected", transition |-> binding.transition,
                            occ |-> nextOccurrence, instant |-> Effective(at)],
                           binding, picked,
                           IF Provenance(picked) = {} THEN None
                           ELSE CHOOSE s \in Provenance(picked) : TRUE)
        /\ UNCHANGED accepted

\* Mutant of Reportable: a later report replaces a frozen outcome.
ReportableAgain(o) == o \in DOMAIN inFlight

\* The activity of o still has to report: a frozen outcome is the first one.
Reportable(o) == o \in DOMAIN inFlight \ DOMAIN frozen

\* record_activity_completion and record_activity_failure: the first outcome
\* is frozen, or quarantined once the firing is cancelled.  A report over a
\* recorded outcome is acknowledged or refused, and changes nothing.
RecordActivity(o, outcome, at) ==
    LET record == [kind |-> IF outcome \in Results THEN "ActivityCompleted" ELSE "ActivityFailed",
                   transition |-> activities[o].binding.transition, occ |-> o,
                   outcome |-> outcome, instant |-> Effective(at)]
    IN  /\ \/ /\ o \in DOMAIN cancelled \ DOMAIN quarantined
              /\ Append1(<<[kind |-> "ActivityTerminalQuarantined", transition |-> record.transition,
                            occ |-> o, outcome |-> outcome, scope |-> cancelled[o].scope,
                            instant |-> Effective(at)]>>, Effective(at))
              /\ quarantined' = Put(quarantined, o, outcome)
              /\ UNCHANGED frozen
           \/ /\ Reportable(o)
              /\ Append1(<<record>>, Effective(at))
              /\ frozen' = Put(frozen, o, outcome)
              /\ UNCHANGED quarantined
        /\ UNCHANGED <<queues, armed, minted, inFlight, activities, cancelled, terminal, accepted, scopes>>

\* _armed_after: closes apply before opens, each to what the earlier ones left.
EffectsHold(envelope) ==
    /\ IsInjective(envelope.closes) /\ IsInjective(envelope.opens)
    /\ \A i \in DOMAIN envelope.closes : envelope.closes[i][2] \in armed[envelope.closes[i][1]]
    /\ \A i \in DOMAIN envelope.opens :
          \/ envelope.opens[i][2] \notin armed[envelope.opens[i][1]]
          \/ Contains(envelope.closes, envelope.opens[i])

\* Mutant of ArmedAfter: opens are applied before closes.
ArmedClosesLast(envelope) ==
    LET at(effects, s) == {effects[i][2] : i \in {i \in DOMAIN effects : effects[i][1] = s}}
    IN  [s \in Sources |-> (armed[s] \cup at(envelope.opens, s)) \ at(envelope.closes, s)]

ArmedAfter(envelope) ==
    LET at(effects, s) == {effects[i][2] : i \in {i \in DOMAIN effects : effects[i][1] = s}}
    IN  [s \in Sources |-> (armed[s] \ at(envelope.closes, s)) \cup at(envelope.opens, s)]

\* Mutant of Spent: identities are never advanced.
SpentNever(deposits, i) == nextEntry
\* Mutant of Spent: the count starts one too late.
SpentOneAhead(deposits, i) ==
    FoldLeft(LAMBDA n, deposit : n + Len(deposit[2]), nextEntry, SubSeq(deposits, 1, i - 1)) + 1

\* The next free queue identity when the i-th deposit is narrated.
Spent(deposits, i) ==
    FoldLeft(LAMBDA n, deposit : n + Len(deposit[2]), nextEntry, SubSeq(deposits, 1, i - 1))

\* _commit_completion after `first', the freeze that Fail may append before it:
\* deposits, registration effects and the terminal record in one batch.
Commit(o, first, outcome, envelope, instant) ==
    LET occurrence == inFlight[o]
        t == occurrence.binding.transition
        deposits == Produced(t, envelope.tokens)
        ids(i) == [k \in DOMAIN deposits[i][2] |-> Spent(deposits, i) + k - 1]
        produced == [i \in DOMAIN deposits |->
            [kind |-> "TokensProduced", place |-> deposits[i][1], tokens |-> deposits[i][2], occ |-> o,
             scope |-> occurrence.scope, entries |-> IF occurrence.scope = None THEN <<>> ELSE ids(i),
             instant |-> instant]]
        effects(kind, registrations) == [i \in DOMAIN registrations |->
            [kind |-> kind, transition |-> registrations[i][1], key |-> registrations[i][2], occ |-> o,
             instant |-> instant]]
    IN  /\ EffectsHold(envelope)
        /\ Append2(first, produced \o effects("DeliveryRegistrationClosed", envelope.closes)
                            \o effects("DeliveryRegistrationOpened", envelope.opens)
                            \o <<[kind |-> "FiringCompleted", transition |-> t, occ |-> o, instant |-> instant]>>,
                   instant)
        /\ queues' = FoldLeftDomain(LAMBDA q, i : ApplyMovement(q, produced[i], ids(i)), queues, produced)
        /\ nextEntry' = Spent(deposits, Len(deposits) + 1)
        /\ armed' = ArmedAfter(envelope)
        /\ inFlight' = Drop(inFlight, {o})
        /\ frozen' = Drop(frozen, {o})
        /\ terminal' = IF occurrence.impure THEN Put(terminal, o, outcome) ELSE terminal
        /\ UNCHANGED <<nextOccurrence, activities, cancelled, quarantined, accepted, scopes>>

\* What completing an occurrence may project: a pure handler's result, the
\* passthrough of an undeclared one, or the projection of the frozen outcome.
Envelopes(o) ==
    LET b == inFlight[o].binding
    IN  IF inFlight[o].impure
          THEN IF o \notin DOMAIN frozen THEN {}
               ELSE {IF frozen[o] \in Results THEN Project[b.transition][frozen[o]]
                     ELSE ProjectFailure[b.transition]} \ {None}
          ELSE IF b.transition \in Declared THEN Handled[b.transition]
          ELSE {[tokens |-> Route(Forwarded(b), b.transition), closes |-> <<>>, opens |-> <<>>]}

\* Instance.complete.
Complete(o, at) ==
    \E envelope \in Envelopes(o) :
        Commit(o, <<>>, IF o \in DOMAIN frozen THEN frozen[o] ELSE None, envelope, Effective(at))

\* A frozen outcome refuses every failure but itself.
MayFail(o, failure) == o \in DOMAIN frozen => frozen[o] = failure

\* Instance.fail.  A frozen outcome other than this failure refuses it; an
\* unrecorded failure is frozen by an append of its own, and then projected
\* if the handler opted in, or the firing ends failed.
Fail(o, failure, at) ==
    LET occurrence == inFlight[o]
        t == occurrence.binding.transition
        freezes == occurrence.impure /\ o \notin DOMAIN frozen
        first == IF freezes
                   THEN <<[kind |-> "ActivityFailed", transition |-> t, occ |-> o,
                           outcome |-> failure, instant |-> Effective(at)]>>
                   ELSE <<>>
        projected == occurrence.impure /\ ProjectFailure[t] # None
    IN  /\ MayFail(o, failure)
        /\ \/ /\ projected /\ EffectsHold(ProjectFailure[t])
              /\ Commit(o, first, failure, ProjectFailure[t], Effective(at))
           \/ /\ projected /\ ~EffectsHold(ProjectFailure[t])
              /\ freezes
              /\ Append1(first, Effective(at))
              /\ frozen' = Put(frozen, o, failure)
              /\ UNCHANGED <<queues, armed, minted, inFlight, activities, cancelled, terminal,
                             quarantined, accepted, scopes>>
           \/ /\ ~projected
              /\ Append2(first, <<[kind |-> "FiringFailed", transition |-> t, occ |-> o,
                                   instant |-> Effective(at)]>>, Effective(at))
              /\ inFlight' = Drop(inFlight, {o})
              /\ frozen' = Drop(frozen, {o})
              /\ terminal' = IF occurrence.impure THEN Put(terminal, o, failure) ELSE terminal
              /\ UNCHANGED <<queues, armed, minted, activities, cancelled, quarantined, accepted, scopes>>

-----------------------------------------------------------------------------
(* Deliveries, registrations and timers. *)

\* An identity is new until a delivery fact, of any kind, records it.
Unseen(identity) == identity \notin DOMAIN accepted

\* Instance.accept_delivery for an identity not seen before.  A target that is
\* not the active generation of its name is recorded as dropped when that
\* generation is past and as quarantined otherwise; the rest begins the
\* source's occurrence.  A redelivery is answered from the recorded fact.
AcceptDelivery(source, tokens, identity, target, at) ==
    LET fact(kind) == [kind |-> kind, transition |-> source, tokens |-> tokens, identity |-> identity,
                       scope |-> target, instant |-> Effective(at)]
        past == target \notin ScopeNames /\ target.generation <= generations[target.name]
        judged == fact(IF past THEN "ScopedDeliveryDropped" ELSE "ScopedDeliveryQuarantined")
        event == [kind |-> "ExternalEventDelivered", transition |-> source, tokens |-> tokens,
                  identity |-> identity, scope |-> target, occ |-> nextOccurrence,
                  instant |-> Effective(at)]
    IN  /\ Unseen(identity)
        /\ \/ /\ target # None /\ target \notin active
              /\ Append1(<<judged>>, Effective(at))
              /\ accepted' = Put(accepted, identity, judged)
              /\ UNCHANGED <<queues, armed, minted, firings, scopes>>
           \/ /\ target = None \/ target \in active
              /\ armed[source] # {}
              /\ BeginOccurrence(event,
                    [transition |-> source, consumed |-> <<>>, read |-> <<>>, delivered |-> tokens],
                    <<>>, target)
              /\ accepted' = Put(accepted, identity, event)

\* Instance.seal: close every registration of the source.
Seal(source, at) ==
    LET keys == SetToSeq(armed[source])
    IN  /\ armed[source] # {}
        /\ Append1([i \in DOMAIN keys |->
                      [kind |-> "DeliveryRegistrationClosed", transition |-> source, key |-> keys[i],
                       occ |-> None, instant |-> Effective(at)]], Effective(at))
        /\ armed' = [armed EXCEPT ![source] = {}]
        /\ UNCHANGED <<queues, minted, firings, accepted, scopes>>

\* Mutant of Wake: the watermark moves without a record.
WakeUnrecorded(at) ==
    LET pending == PendingMaturations(queues, watermark)
    IN  /\ pending # {} /\ Effective(at) >= Min(pending)
        /\ watermark' = Effective(at)
        /\ UNCHANGED <<history, boundaries, queues, armed, minted, firings, accepted, scopes>>

\* Instance.wake: a wakeup that matures nothing is no fact.
Wake(at) ==
    LET pending == PendingMaturations(queues, watermark)
    IN  /\ pending # {} /\ Effective(at) >= Min(pending)
        /\ Append1(<<[kind |-> "TimerMatured", maturation |-> Min(pending), instant |-> Effective(at)]>>,
                   Effective(at))
        /\ UNCHANGED <<queues, armed, minted, firings, accepted, scopes>>

Next ==
    \E at \in Instants :
        \/ \E name \in ScopeNames : OpenScope(name, at)
        \/ \E scope \in active : CloseScope(scope, at) \/ ResetScope(scope, at)
        \/ \E binding \in Candidates(queues, Effective(at)) : Begin(binding, at)
        \/ \E o \in DOMAIN activities, outcome \in Results \cup Failures : RecordActivity(o, outcome, at)
        \/ \E o \in DOMAIN inFlight : Complete(o, at)
        \/ \E o \in DOMAIN inFlight, failure \in Failures : Fail(o, failure, at)
        \/ \E source \in Sources, tokens \in Payloads, identity \in Identities, target \in Targets :
              AcceptDelivery(source, tokens, identity, target, at)
        \/ \E source \in Sources : Seal(source, at)
        \/ Wake(at)

Spec == Init /\ [][Next]_vars

-----------------------------------------------------------------------------
(* Properties. *)

\* The shape of the live state: functions over occurrences and identities
\* already given out, and one spent generation count per scope name.
TypeOK ==
    /\ nextOccurrence \in Nat \ {0}
    /\ DOMAIN inFlight \subseteq 1..(nextOccurrence - 1)
    /\ DOMAIN activities \subseteq 1..(nextOccurrence - 1)
    /\ DOMAIN cancelled \subseteq 1..(nextOccurrence - 1)
    /\ DOMAIN terminal \subseteq DOMAIN activities
    /\ DOMAIN accepted \subseteq Identities
    /\ generations \in [ScopeNames -> Nat]
    /\ active \subseteq [name : ScopeNames, generation : Nat \ {0}]

\* An occurrence is never both working and over: what is in flight is neither
\* cancelled nor terminal, only work in flight holds a frozen outcome, only
\* cancelled work a quarantined one, and a name has one active generation,
\* the last one opened (_ensure_in_flight, _apply_scope_terminal).
LifecycleInv ==
    /\ TypeOK
    /\ DOMAIN inFlight \cap (DOMAIN cancelled \cup DOMAIN terminal) = {}
    /\ DOMAIN cancelled \cap DOMAIN terminal = {}
    /\ DOMAIN frozen \subseteq DOMAIN inFlight \cap DOMAIN activities
    /\ DOMAIN quarantined \subseteq DOMAIN cancelled \cap DOMAIN activities
    /\ \A o \in DOMAIN inFlight : inFlight[o].impure <=> o \in DOMAIN activities
    /\ \A s \in active : s.generation = generations[s.name]

\* A crash between any two operations loses nothing: what resume derives from
\* the History is exactly the live state the single writer holds.
LiveIsReplay ==
    LET replayed == ReplayQueues(history)
    IN  /\ queues = replayed.queues /\ nextEntry = replayed.next
        /\ watermark = Watermark(history)
        /\ nextOccurrence = NextOccurrence(history)
        /\ armed = Armed(history)
        /\ accepted = Accepted(history)
        /\ active = ActiveScopes(history)
        /\ \A n \in ScopeNames : generations[n] = Generation(history, n)
        /\ inFlight = OccurrencesOf(history, Open(history))
        /\ activities = OccurrencesOf(history, Requested(history))
        /\ cancelled = OccurrencesOf(history, Cancelled(history))
        /\ frozen = Frozen(history)
        /\ terminal = Terminal(history)
        /\ quarantined = Quarantined(history)

\* resume never refuses as divergent a History its own writer committed.
ResumeAccepts == Replayable(history)

\* A crash between any two operations loses nothing and the History a process
\* leaves is one that resume accepts.
ResumeRebuilds == LiveIsReplay /\ ResumeAccepts

\* The batch position n falls inside ends a firing.
SplitsCompletion(n) ==
    LET end == Min({b \in boundaries : b > n})
    IN  n \notin boundaries /\ history[end].kind = "FiringCompleted"

\* A crash that leaves only part of a completion's batch on disk is refused by
\* resume (_refuse_torn_batch): no firing is half completed.
TornCommitRefused ==
    \A n \in Min(boundaries)..Len(history) :
        SplitsCompletion(n) => ~Replayable(SubSeq(history, 1, n))

\* The JSONL store's account of a torn append: a prefix that splits any commit
\* batch is one resume refuses (history_store/jsonl.py, 117-122).
TornPrefixRefused ==
    \A n \in (1..Len(history)) \ boundaries : ~Replayable(SubSeq(history, 1, n))

\* Closing or resetting a generation leaves nothing of it behind: no token in
\* any queue and no firing in flight belongs to a generation that is over.
ScopesAreClean ==
    /\ \A p \in Places : \A i \in DOMAIN queues[p] : queues[p][i].scope \in active \cup {None}
    /\ \A o \in DOMAIN inFlight : inFlight[o].scope \in active \cup {None}

\* Tokens named by records of these kinds.
Narrated(kinds) ==
    LET rs == SelectSeq(history, LAMBDA r : r.kind \in kinds)
    IN  FoldLeft(LAMBDA n, r : n + Len(r.tokens), 0, rs)

\* Every deposited token is in exactly one place: still queued, consumed by one
\* firing, or discarded by the end of its generation; and no two queued tokens
\* share an identity.
TokensConserved ==
    LET queued == UNION {{<<p, i>> : i \in DOMAIN queues[p]} : p \in Places}
        ended == SelectSeq(history, LAMBDA r : r.kind \in ScopeEnds)
        discarded == FoldLeft(LAMBDA n, r : n + Cardinality(r.discarded), 0, ended)
    IN  /\ Narrated(Deposits) = Cardinality(queued) + Narrated({"TokensConsumed"}) + discarded
        /\ Cardinality(UNION {Ids(queues[p]) : p \in Places}) = Cardinality(queued)

\* Tokens are accounted for: none is lost or made, and none of an ended scope
\* is left in a place or in flight.
TokensAccounted == TokensConserved /\ ScopesAreClean

\* The outcome recorded for an activity, wherever it is kept.
Outcome(o) ==
    IF o \in DOMAIN frozen THEN frozen[o]
    ELSE IF o \in DOMAIN terminal THEN terminal[o]
    ELSE IF o \in DOMAIN quarantined THEN quarantined[o] ELSE None

\* The first outcome reported for an activity stands: no later report, failure
\* or scope end replaces or loses it.
FirstOutcomeKept ==
    \A o \in DOMAIN activities : Outcome(o) # None => Outcome(o)' = Outcome(o)

\* A delivery identity is answered for ever by the fact first recorded for it,
\* and starts at most one occurrence.
DeliveriesKept ==
    /\ \A d \in DOMAIN accepted : d \in DOMAIN accepted' /\ accepted'[d] = accepted[d]
    /\ \A o \in DOMAIN inFlight' \ DOMAIN inFlight :
          inFlight'[o].binding.delivered # <<>> =>
             \E d \in DOMAIN accepted' \ DOMAIN accepted : accepted'[d].occ = o

\* A generation that is over is never active again, so no identity of old work
\* can be taken for new.
GenerationsStaySpent ==
    \A n \in ScopeNames : \A s \in active' \ active :
       s.name = n => s.generation > generations[n]

\* What was recorded stands: the first outcome of an activity, the fact of a
\* delivery identity and the spent generations of a scope name.
RecordsStand == [][FirstOutcomeKept /\ DeliveriesKept /\ GenerationsStaySpent]_vars


\* Marking.consume: "the binding guarantees presence before firing".  A binding
\* that is offered as a candidate can be begun.
CandidatesBegin == \A binding \in Candidates(queues, watermark) : Beginnable(binding)

\* ActivityFailed: "Committed together with FiringFailed in one batch".  The
\* append that records a failure does not end with it.
FailureIsOneBatch ==
    \A i \in DOMAIN history : history[i].kind = "ActivityFailed" => i \notin boundaries

=============================================================================
