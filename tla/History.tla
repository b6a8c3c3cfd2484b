------------------------------- MODULE History -------------------------------
(***************************************************************************)
(* The event History of one Instance and what resume derives from it.  A   *)
(* history is a sequence of records; `kind' is the record's class,         *)
(* `transition' also names the source of a delivery or registration record *)
(* and `scope' the generation a ScopeReset closes.  An absent occurrence   *)
(* or scope is None.                                                       *)
(*                                                                         *)
(* The projections are what the replay_* functions rebuild.  Replayable    *)
(* says that no replay function refuses the history as divergent, that is, *)
(* that Instance.resume succeeds on it.                                    *)
(***************************************************************************)
EXTENDS Petrinet, FiniteSets

CONSTANTS
    Declared,    \* transitions with a handler; the others pass tokens through
    Impure,      \* transitions bound to an ActivityHandler
    Keys,        \* delivery-registration keys
    ScopeNames,
    None         \* an absent occurrence or scope

\* _bind_symbols refuses an ActivityHandler on a source transition.
ASSUME HandlerAssumption ==
    /\ Declared \subseteq Transitions /\ Impure \subseteq Declared \ Sources
    /\ "default" \in Keys

Initiations == {"CandidateSelected", "ExternalEventDelivered"}
BeginTail == {"TokensConsumed", "TokensRead", "ActivityRequested"}
ActivityTerminals == {"ActivityCompleted", "ActivityFailed"}
Registrations == {"DeliveryRegistrationOpened", "DeliveryRegistrationClosed"}
FiringTerminals == {"FiringCompleted", "FiringFailed"}
ScopeEnds == {"ScopeClosed", "ScopeReset"}
DeliveryFacts == {"ExternalEventDelivered", "ScopedDeliveryDropped", "ScopedDeliveryQuarantined"}
Deposits == {"TokensInitialized", "TokensProduced"}

Facts(h, kinds) == {r \in ToSet(h) : r.kind \in kinds}
Occs(h, kinds) == {r.occ : r \in Facts(h, kinds)}
FactOf(h, kinds, o) == CHOOSE r \in Facts(h, kinds) : r.occ = o

-----------------------------------------------------------------------------
(* Token movements: one step serves the live instance and the replay. *)

\* The queue identities a deposit enters under: recorded when it is scoped,
\* otherwise the next ones.
Entries(r, next) ==
    IF r.entries # <<>> THEN r.entries ELSE [k \in DOMAIN r.tokens |-> next + k - 1]

\* apply_movement.
ApplyMovement(queues, r, entries) ==
    CASE r.kind \in Deposits ->
            [queues EXCEPT ![r.place] = @ \o
                [k \in DOMAIN r.tokens |-> [token |-> r.tokens[k], instant |-> r.instant,
                                            id |-> entries[k], scope |-> r.scope]]]
      [] r.kind = "TokensConsumed" ->
            [queues EXCEPT ![r.place] =
                Discard(@, IF r.entries # <<>> THEN ToSet(r.entries) ELSE Ids(Selected(@, r.tokens)))]
      [] r.kind \in ScopeEnds -> [p \in Places |-> Discard(queues[p], r.discarded)]
      [] OTHER -> queues

\* The entries of a generation, over all places.
ScopedIds(queues, scope) ==
    UNION {Ids(SelectSeq(queues[p], LAMBDA e : e.scope = scope)) : p \in Places}

\* What the fold refuses: an identity spent before, a token that is not
\* there, a cleanup that is not exactly the closed generation's entries.
MovementHolds(state, r, entries) ==
    CASE r.kind \in Deposits -> ToSet(entries) \cap state.spent = {}
      [] r.kind = "TokensConsumed" ->
            IF r.entries = <<>> THEN Present(state.queues[r.place], r.tokens)
            ELSE \A k \in DOMAIN r.tokens : \E i \in DOMAIN state.queues[r.place] :
                    LET e == state.queues[r.place][i]
                    IN  e.token = r.tokens[k] /\ e.id = r.entries[k]
      [] r.kind \in ScopeEnds -> r.discarded = ScopedIds(state.queues, r.scope)
      [] OTHER -> TRUE

Movement(state, r) ==
    LET entries == IF r.kind \in Deposits THEN Entries(r, state.next) ELSE <<>>
        spent == state.spent \cup ToSet(entries)
    IN  [queues |-> ApplyMovement(state.queues, r, entries),
         next |-> Max({state.next} \cup {id + 1 : id \in ToSet(entries)}),
         spent |-> spent,
         ok |-> state.ok /\ MovementHolds(state, r, entries)]

\* replay_queues, replay_next_queue_identity.
ReplayQueues(h) ==
    FoldLeft(Movement, [queues |-> [p \in Places |-> <<>>], next |-> 1, spent |-> {}, ok |-> TRUE], h)

-----------------------------------------------------------------------------
(* Projections. *)

\* replay_watermark, replay_next_occurrence.
Watermark(h) == Last(h).instant
NextOccurrence(h) ==
    Max({0} \cup ({r.occ : r \in {r \in ToSet(h) : "occ" \in DOMAIN r}} \ {None})) + 1

\* replay_scopes: the active generations, and the greatest one spent per name.
OpenedScopes(h) ==
    {r.scope : r \in Facts(h, {"ScopeOpened"})} \cup {r.opened : r \in Facts(h, {"ScopeReset"})}
ActiveScopes(h) == OpenedScopes(h) \ {r.scope : r \in Facts(h, ScopeEnds)}
Generation(h, name) ==
    Max({0} \cup {s.generation : s \in {s \in OpenedScopes(h) : s.name = name}})

\* replay_armed.
Armed(h) ==
    LET is(i, kind, s, k) == h[i].kind = kind /\ h[i].transition = s /\ h[i].key = k
    IN  [s \in Sources |-> {k \in Keys : \E i \in DOMAIN h :
            /\ is(i, "DeliveryRegistrationOpened", s, k)
            /\ \A j \in i..Len(h) : ~is(j, "DeliveryRegistrationClosed", s, k)}]

\* replay_accepted_identities.
Accepted(h) ==
    [d \in {r.identity : r \in Facts(h, DeliveryFacts)} |->
        CHOOSE r \in Facts(h, DeliveryFacts) : r.identity = d]

\* _sorted_lifecycle: begun, ended by a terminal boundary or by lifecycle
\* cancellation, carrying records of an end batch.
Begun(h) == Occs(h, {"FiringBegun"})
Cancelled(h) == UNION {r.cancelled : r \in Facts(h, ScopeEnds)}
Ended(h) == Occs(h, FiringTerminals) \cup Cancelled(h)
Open(h) == Begun(h) \ Ended(h)
Ending(h) == Occs(h, {"TokensProduced"} \cup Registrations)
Requested(h) == Occs(h, {"ActivityRequested"})

\* The binding and provenance an occurrence's own records rebuild.
Occurrence(h, o) ==
    LET initiation == FactOf(h, Initiations, o)
        selections(kind) ==
            LET tail == SelectSeq(h, LAMBDA r : r.kind = kind /\ r.occ = o)
            IN  [i \in DOMAIN tail |-> <<tail[i].place, tail[i].tokens>>]
    IN  [binding |-> [transition |-> initiation.transition,
                      delivered |-> IF initiation.kind = "CandidateSelected" THEN <<>>
                                    ELSE initiation.tokens,
                      consumed |-> selections("TokensConsumed"),
                      read |-> selections("TokensRead")],
         scope |-> FactOf(h, {"FiringBegun"}, o).scope,
         impure |-> o \in Requested(h)]

OccurrencesOf(h, os) == [o \in os |-> Occurrence(h, o)]

\* replay_projection_pending, replay_terminal_activity, replay_quarantined_activity.
OutcomesOf(h, kinds, os) ==
    [o \in os \cap Occs(h, kinds) |-> FactOf(h, kinds, o).outcome]
Frozen(h) == OutcomesOf(h, ActivityTerminals, Open(h))
Terminal(h) == OutcomesOf(h, ActivityTerminals, Occs(h, FiringTerminals))
Quarantined(h) == OutcomesOf(h, {"ActivityTerminalQuarantined"}, Cancelled(h))

-----------------------------------------------------------------------------
(* What replay refuses. *)

\* _validate_binding_shape: one selection per consume and per read arc.
WellShaped(binding) ==
    LET matches(selections, arcs) ==
            /\ Len(selections) = Len(arcs)
            /\ \A i \in DOMAIN arcs : /\ selections[i][1] = arcs[i].place
                                      /\ Len(selections[i][2]) = arcs[i].weight
    IN  /\ matches(binding.consumed, ArcsOf(binding.transition, "consume"))
        /\ matches(binding.read, ArcsOf(binding.transition, "read"))

\* _validate_replayed_occurrence.
MatchesNet(occurrence) ==
    LET t == occurrence.binding.transition
    IN  /\ t \in Sources <=> occurrence.binding.delivered # <<>>
        /\ WellShaped(occurrence.binding)
        /\ occurrence.impure <=> t \in Impure

\* _refuse_disordered_begin_batch, _rebuilt_occurrence: consumes, reads, then
\* the request, all of the scope and transition the firing began with.
BeginRank(r) ==
    CASE r.kind = "TokensConsumed" -> 1 [] r.kind = "TokensRead" -> 2 [] OTHER -> 3

WholeBegin(h, o) ==
    LET begun == FactOf(h, {"FiringBegun"}, o)
        tail == SelectSeq(h, LAMBDA r : r.kind \in BeginTail /\ r.occ = o)
    IN  /\ begun.transition = FactOf(h, Initiations, o).transition
        /\ \A i \in DOMAIN tail : tail[i].scope = begun.scope
        /\ \A i, j \in DOMAIN tail : i < j => BeginRank(tail[i]) <= BeginRank(tail[j])

\* Whether r may extend the begin batch of its occurrence that ends p.
InBeginBatch(p, r) ==
    LET outside == SelectSeq(p, LAMBDA q : q.kind \notin BeginTail)
    IN  /\ outside # <<>>
        /\ Last(outside).kind = "FiringBegun" /\ Last(outside).occ = r.occ
        /\ Last(outside).instant = r.instant

ScopeActive(p, r) == r.scope = None \/ r.scope \in ActiveScopes(p)

OfBegunTransition(p, r) ==
    r.occ \in Begun(p) /\ r.transition = FactOf(p, {"FiringBegun"}, r.occ).transition

\* A registration may open only while closed, and close only while open.
Correlated(p, r) ==
    /\ (r.kind = "DeliveryRegistrationOpened") <=> r.key \notin Armed(p)[r.transition]
    /\ r.occ # None => r.occ \in Begun(p)

NewIdentity(p, r) ==
    /\ r.transition \in Sources
    /\ r.identity \notin {q.identity : q \in Facts(p, DeliveryFacts)}

\* Whether the single writer could append r to p: the conjunction of what
\* _sorted_lifecycle, replay_scopes, replay_accepted_identities,
\* replay_terminal_activity and replay_quarantined_activity demand of one record.
Coherent(p, r) ==
    CASE r.kind = "CandidateSelected" ->
            r.occ \notin Occs(p, Initiations) /\ r.transition \in Transitions \ Sources
      [] r.kind = "ExternalEventDelivered" ->
            /\ r.occ \notin Occs(p, Initiations)
            /\ NewIdentity(p, r) /\ Armed(p)[r.transition] # {} /\ ScopeActive(p, r)
      [] r.kind = "FiringBegun" ->
            /\ r.occ \notin Begun(p) /\ ScopeActive(p, r)
            /\ Last(p).kind \in Initiations /\ Last(p).occ = r.occ /\ Last(p).instant = r.instant
      [] r.kind \in BeginTail ->
            /\ r.occ \in Begun(p) \ (Ended(p) \cup Ending(p))
            /\ InBeginBatch(p, r) /\ ScopeActive(p, r)
            /\ r.kind = "ActivityRequested" => r.occ \notin Requested(p) /\ OfBegunTransition(p, r)
      [] r.kind \in ActivityTerminals ->
            /\ r.occ \in Requested(p) /\ OfBegunTransition(p, r)
            /\ r.occ \notin Occs(p, ActivityTerminals) /\ r.occ \notin Ended(p)
      [] r.kind = "ActivityTerminalQuarantined" ->
            /\ OfBegunTransition(p, r)
            /\ \E q \in Facts(p, ScopeEnds) : r.occ \in q.cancelled /\ r.scope = q.scope
            /\ r.occ \notin Occs(p, {r.kind})
      [] r.kind = "TokensProduced" -> ScopeActive(p, r)
      [] r.kind \in FiringTerminals -> OfBegunTransition(p, r) /\ r.occ \notin Ended(p)
      [] r.kind \in ScopeEnds ->
            /\ r.scope \in ActiveScopes(p)
            /\ r.cancelled = {o \in Open(p) : FactOf(p, {"FiringBegun"}, o).scope = r.scope}
            /\ r.cancelled \cap Occs(p, ActivityTerminals) = {}
      [] r.kind = "ScopeOpened" ->
            /\ \A s \in ActiveScopes(p) : s.name # r.scope.name
            /\ r.scope.generation = Generation(p, r.scope.name) + 1
      [] r.kind = "ScopedDeliveryDropped" ->
            /\ NewIdentity(p, r) /\ r.scope \notin ActiveScopes(p)
            /\ r.scope.generation <= Generation(p, r.scope.name)
      [] r.kind = "ScopedDeliveryQuarantined" ->
            /\ NewIdentity(p, r)
            /\ r.scope \notin ScopeNames => r.scope.generation > Generation(p, r.scope.name)
      [] r.kind \in Registrations -> Correlated(p, r)
      [] r.kind = "TimerMatured" -> TRUE
      [] OTHER -> FALSE

\* _validate_construction_batch: identity, then the initial tokens, then one
\* default registration per source, all at the construction instant.
Initial(r) == r.kind = "TokensInitialized" \/ (r.kind = "DeliveryRegistrationOpened" /\ r.occ = None)

Construction(h) ==
    SubSeq(h, 2, Min({i \in 2..(Len(h) + 1) : i > Len(h) \/ ~Initial(h[i])}) - 1)

WholeConstruction(h) ==
    LET batch == Construction(h)
        opens == {i \in DOMAIN batch : batch[i].kind = "DeliveryRegistrationOpened"}
    IN  /\ h[1].kind = "InstanceCreated"
        /\ \A i \in DOMAIN batch :
              /\ batch[i].instant = h[1].instant
              /\ i \in opens => batch[i].key = "default"
              /\ i \notin opens => /\ batch[i].tokens # <<>>
                                  /\ batch[i].scope = None /\ batch[i].entries = <<>>
              /\ \A j \in DOMAIN batch : i < j =>
                    /\ i \in opens => j \in opens
                    /\ i \notin opens /\ j \notin opens => batch[i].place # batch[j].place
        /\ Cardinality(opens) = Cardinality(Sources)
        /\ {batch[i].transition : i \in opens} = Sources

\* One contiguous end batch: deposits, closes, opens and the completion.
EndRank(r) ==
    CASE r.kind = "TokensProduced" -> 0
      [] r.kind = "DeliveryRegistrationClosed" -> 1
      [] r.kind = "DeliveryRegistrationOpened" -> 2
      [] r.kind = "FiringCompleted" -> 3

WholeEnd(h, o) ==
    LET batch == {i \in DOMAIN h : /\ h[i].kind \in Registrations \cup {"TokensProduced", "FiringCompleted"}
                                   /\ h[i].occ = o}
    IN  batch # {} =>
          /\ batch = Min(batch)..Max(batch)
          /\ h[Max(batch)].kind = "FiringCompleted"
          /\ \A i, j \in batch : /\ h[i].instant = h[j].instant
                                 /\ i < j => EndRank(h[i]) <= EndRank(h[j])

\* _validate_accepted_source_occurrences: the lifecycle of an accepted
\* delivery is pure, deposits under its scope what its source may produce,
\* and, with no declared handler, exactly what passthrough routes.
PureSource(h, accepted) ==
    LET o == accepted.occ
        positions == {i \in DOMAIN h : h[i].kind = "TokensProduced" /\ h[i].occ = o}
        deposits == SelectSeq(h, LAMBDA r : r.kind = "TokensProduced" /\ r.occ = o)
    IN  /\ WholeEnd(h, o)
        /\ o \notin Occs(h, BeginTail \cup ActivityTerminals \cup {"ActivityTerminalQuarantined"})
        /\ \A i \in positions :
              /\ h[i].tokens # <<>> /\ h[i].scope = accepted.scope
              /\ h[i].scope # None =>
                    h[i].entries = [k \in DOMAIN h[i].tokens |-> ReplayQueues(SubSeq(h, 1, i - 1)).next + k - 1]
              /\ \A k \in DOMAIN h[i].tokens : Deliverable(accepted.transition, h[i].place, h[i].tokens[k])
              /\ \A j \in positions : h[i].place = h[j].place => i = j
        /\ accepted.transition \notin Declared =>
              /\ o \notin Occs(h, Registrations)
              /\ o \in Occs(h, {"FiringCompleted"}) =>
                    [i \in DOMAIN deposits |-> <<deposits[i].place, deposits[i].tokens>>]
                      = Route(accepted.tokens, accepted.transition)

\* Every acceptance is followed by the begin it initiates.
AcceptancePairs(h) ==
    \A i \in DOMAIN h : h[i].kind = "ExternalEventDelivered" =>
        /\ i < Len(h)
        /\ h[i + 1] = [kind |-> "FiringBegun", transition |-> h[i].transition, occ |-> h[i].occ,
                       scope |-> h[i].scope, instant |-> h[i].instant]

\* Mutant of WholeOccurrences: a live occurrence may carry part of an end batch.
TornTolerated(h) == \A o \in Open(h) : WholeBegin(h, o) /\ MatchesNet(Occurrence(h, o))

\* _refuse_torn_batch and the checks resume makes of live occurrences.
WholeOccurrences(h) ==
    LET effects == Occs(h, Registrations) \ {None}
        live == Open(h)
    IN  /\ live \cap Ending(h) = {}
        /\ \A o \in live : LET s == FactOf(h, {"FiringBegun"}, o).scope
                           IN  s = None \/ s \in ActiveScopes(h)
        /\ \A o \in live \cup effects \cup Requested(h) \cup Cancelled(h) : WholeBegin(h, o)
        /\ \A o \in live \cup effects : MatchesNet(Occurrence(h, o))
        /\ \A o \in effects : WholeEnd(h, o)

\* Instance.resume succeeds on h.
Replayable(h) ==
    /\ h # <<>>
    /\ WholeConstruction(h)
    /\ \A i \in (Len(Construction(h)) + 2)..Len(h) :
          /\ ~Initial(h[i])
          /\ Coherent(SubSeq(h, 1, i - 1), h[i])
          /\ h[i - 1].instant <= h[i].instant
    /\ ReplayQueues(h).ok
    /\ AcceptancePairs(h)
    /\ WholeOccurrences(h)
    /\ \A r \in Facts(h, {"ExternalEventDelivered"}) : PureSource(h, r)

=============================================================================
